---- MODULE Spec2Model ----
(***************************************************************************)
(* Fixed-point ResNet inference firmware for the Murax/VexRiscv SoC and    *)
(* its host verifiers: the weight cursor (plain and BlockDialect-encoded), *)
(* the block codec, the verification hasher, the residual block and the    *)
(* stage runner.                                                           *)
(*                                                                         *)
(* Specifications:                                                         *)
(*   SpecCursor  plain-format weight cursor (firmware and host verifier)   *)
(*   SpecBD      encoded-format weight cursor (firmware and host verifier) *)
(*   SpecDecode  software block decode of one 18-byte block                *)
(*   Spec        the full-network run of hyperram_phase_full main()        *)
(*   SpecStage   run_stage() called with arbitrary small stage parameters  *)
(***************************************************************************)
EXTENDS Integers, Naturals, Sequences, FiniteSets, TLC

VARIABLES
    \* plain-format cursor, firmware (phase_full / phase_a)
    w_offset,          \* uint32_t w_offset
    w_view,            \* offset (from WEIGHTS_PTR) of the pointer last returned
    w_sum,             \* history: sum of the requests, each rounded up to 4
    w_calls,           \* history: number of get_weights calls since reset
    \* plain-format cursor, host verifier (host_verify.c)
    hv_w_offset,       \* static uint32_t w_offset
    hv_fpos,           \* file position of weights_fp
    hv_view,           \* blob offset (after the header) of weight_buf[0]
    hv_cap,            \* weight_buf_cap
    hv_sum,            \* history, as w_sum
    hv_calls,          \* history, as w_calls
    \* encoded-format cursor, firmware (phase_b)
    bd_offset,         \* uint32_t bd_offset
    bytes_read_total,  \* uint32_t bytes_read_total
    bd_n_blocks,       \* n_blocks field of the record header last read
    bd_prev,           \* history: bd_offset before the last call
    bd_calls,          \* history: number of get_weights calls
    bd_slots,          \* decode_buf block slots written by the last call
    \* encoded-format cursor, host verifier (host_verify_phase_b.c)
    hvb_offset,        \* static uint32_t bd_offset
    hvb_total,         \* static uint32_t bytes_read_total
    hvb_fpos,          \* file position of weights_fp
    hvb_n_blocks,      \* n_blocks field of the record header last read
    hvb_prev,          \* history: bd_offset before the last call
    hvb_calls,         \* history: number of get_weights calls
    hvb_slots,         \* decode_buf block slots written by the last call
    \* block codec
    block_data,        \* the 18 bytes of the block being decoded
    out,               \* the 32 decoded int8 values (<<>> before the call)
    \* full run / stage runner
    pc,                \* position of the single call stack
    magic,             \* header[0] of the weight blob
    hash_idx,          \* int hash_idx
    hash_calls,        \* history: number of print_hash calls
    hash_cmp,          \* history: table index compared by the last call
    hash_name,         \* history: layer name of the last print_hash call
    hash_sum,          \* history: checksum computed by the last print_hash call
    printed,           \* report lines written to the UART so far (kinds)
    layers,            \* history: number of layer computations executed
    st,                \* run_stage frame: parameters, i, current_in/out
    bb,                \* basic_block frame: parameters and derived sizes
    reqs,              \* history: cursor requests issued by the current block
    prev_bb,           \* history: frame of the previous basic_block call
    stage_no,          \* which stage of main() is running (1..3), 0 outside
    ret_buf,           \* value returned by the last run_stage call
    \* primitives run on their own with concrete data
    head,              \* classifier head: pooled vector, blob, logits, best
    cv,                \* convolution call: parameters, input, loop position, writes
    bn,                \* normalize call: feature map, parameter storage, position
    ds,                \* downsample call: input, output, loop position
    blk,               \* residual block on data: the three buffers, position
    hw                 \* decoder register interface: accesses made, device state

cursorVars == <<w_offset, w_view, w_sum, w_calls>>
hvVars     == <<hv_w_offset, hv_fpos, hv_view, hv_cap, hv_sum, hv_calls>>
bdVars     == <<bd_offset, bytes_read_total, bd_n_blocks, bd_prev, bd_calls, bd_slots>>
hvbVars    == <<hvb_offset, hvb_total, hvb_fpos, hvb_n_blocks, hvb_prev, hvb_calls, hvb_slots>>
decVars    == <<block_data, out>>
runVars    == <<pc, magic, hash_idx, hash_calls, hash_cmp, hash_name, hash_sum, printed,
                layers, st, bb, reqs, prev_bb, stage_no, ret_buf>>
dataVars   == <<head, cv, bn, ds, blk, hw>>
vars == <<cursorVars, hvVars, bdVars, hvbVars, decVars, runVars, dataVars>>

(***************************************************************************)
(* Bounds of the model                                                     *)
(***************************************************************************)
MaxCount  == 9     \* largest request size drawn in SpecCursor
MaxCalls  == 3     \* get_weights calls per reset in SpecCursor / SpecBD
MaxBlocks == 18    \* largest n_blocks header field drawn in SpecBD
MaxSeed   == 15    \* packed-code patterns drawn in SpecDecode
MaxStageBlocks == 4 \* largest n_blocks drawn in SpecStage
MaxDim    == 5     \* largest h, w drawn in SpecStage

(***************************************************************************)
(* Machine arithmetic                                                      *)
(***************************************************************************)
\* The model's integers are 32-bit signed.  The uint32_t cursor offsets of the
\* model stay far below 2^31, where uint32_t addition is plain addition; the
\* int32_t left shift of the block codec is modelled at full width (Shl32).
MaxS32 == 2147483647
MinS32 == -2147483647 - 1
Half32 == 1073741824

\* x + x in two's-complement int32_t (the carry out of bit 31 is dropped)
Dbl32(x) ==
    IF x >= Half32 THEN (2 * (x - Half32) - MaxS32) - 1
    ELSE IF x < -Half32 THEN (2 * (x + Half32) + MaxS32) + 1
    ELSE 2 * x

\* x << k as the 32-bit shifter computes it
RECURSIVE Shl32(_, _)
Shl32(x, k) == IF k = 0 THEN x ELSE Shl32(Dbl32(x), k - 1)

\* (int8_t) conversion: keep the low 8 bits
ToS8(x) == LET m == x % 256 IN IF m >= 128 THEN m - 256 ELSE m

Pow2(k) == 2 ^ k

\* arithmetic right shift of a signed value
Sar(x, k) == x \div Pow2(k)

(***************************************************************************)
(* Idle values of the parts a specification does not exercise              *)
(***************************************************************************)
NoView == -1

CursorIdle ==
    /\ w_offset = 0 /\ w_view = NoView /\ w_sum = 0 /\ w_calls = 0

HvIdle ==
    /\ hv_w_offset = 0 /\ hv_fpos = 16 /\ hv_view = NoView /\ hv_cap = 0
    /\ hv_sum = 0 /\ hv_calls = 0

BdIdle ==
    /\ bd_offset = 0 /\ bytes_read_total = 0 /\ bd_n_blocks = 0
    /\ bd_prev = 0 /\ bd_calls = 0 /\ bd_slots = {}

HvbIdle ==
    /\ hvb_offset = 0 /\ hvb_total = 0 /\ hvb_fpos = 16 /\ hvb_n_blocks = 0
    /\ hvb_prev = 0 /\ hvb_calls = 0 /\ hvb_slots = {}

DecIdle ==
    /\ block_data = <<>> /\ out = <<>>

NoFrame == [in_buf |-> "none"]
NoData  == [op |-> "none"]

DataIdle ==
    /\ head = NoData /\ cv = NoData /\ bn = NoData /\ ds = NoData
    /\ blk = NoData /\ hw = NoData

NoName  == [prefix |-> "", idx |-> -1]

RunIdle ==
    /\ magic = 0 /\ hash_idx = 0 /\ hash_calls = 0 /\ hash_cmp = -1
    /\ hash_name = NoName /\ hash_sum = 0 /\ printed = {} /\ layers = 0
    /\ st = NoFrame /\ bb = NoFrame /\ reqs = <<>> /\ prev_bb = NoFrame
    /\ stage_no = 0 /\ ret_buf = "none"

(***************************************************************************)
(* Plain-format weight cursor                                              *)
(***************************************************************************)

\* while (w_offset % 4 != 0) w_offset++;
RECURSIVE AlignLoop(_)
AlignLoop_noalign(off) == off

AlignLoop(off) == IF off % 4 # 0 THEN AlignLoop(off + 1) ELSE off

\* w_offset after get_weights(count) of the firmware
get_weights_offset(off, count) == AlignLoop(off + count)

\* reset_weights() of the firmware
reset_weights ==
    /\ pc = "phase_full"
    /\ w_offset' = 0
    /\ w_sum' = 0 /\ w_calls' = 0
    /\ UNCHANGED <<w_view, hvVars, bdVars, hvbVars, decVars, dataVars, runVars>>

\* get_weights(count) of the firmware: p is taken before the advance
get_weights(count) ==
    /\ pc = "phase_full"
    /\ w_calls < MaxCalls
    /\ w_view' = w_offset
    /\ w_offset' = get_weights_offset(w_offset, count)
    /\ w_sum' = w_sum + ((count + 3) \div 4) * 4
    /\ w_calls' = w_calls + 1
    /\ UNCHANGED <<hvVars, bdVars, hvbVars, decVars, dataVars, runVars>>

\* int pad = (4 - (w_offset % 4)) % 4;
hv_pad(off) == (4 - (off % 4)) % 4

\* reset_weights() of host_verify.c
hv_reset_weights ==
    /\ pc = "host_verify"
    /\ hv_w_offset' = 0
    /\ hv_fpos' = 16
    /\ hv_sum' = 0 /\ hv_calls' = 0
    /\ UNCHANGED <<hv_view, hv_cap, cursorVars, bdVars, hvbVars, decVars, dataVars, runVars>>

\* get_weights(count) of host_verify.c: fread of count bytes at the file
\* position into weight_buf, then the pad is skipped with fseek
hv_get_weights(count) ==
    /\ pc = "host_verify"
    /\ hv_calls < MaxCalls
    /\ hv_cap' = IF count > hv_cap THEN count ELSE hv_cap
    /\ hv_view' = hv_fpos - 16
    /\ LET off1 == hv_w_offset + count
           pad  == hv_pad(off1)
       IN /\ hv_w_offset' = off1 + pad
          /\ hv_fpos' = hv_fpos + count + pad
    /\ hv_sum' = hv_sum + ((count + 3) \div 4) * 4
    /\ hv_calls' = hv_calls + 1
    /\ UNCHANGED <<cursorVars, bdVars, hvbVars, decVars, dataVars, runVars>>

CursorInit ==
    /\ pc \in {"phase_full", "host_verify"}
    /\ CursorIdle /\ HvIdle /\ BdIdle /\ HvbIdle /\ DecIdle /\ DataIdle /\ RunIdle

CursorNext ==
    \/ reset_weights
    \/ \E count \in 0..MaxCount : get_weights(count)
    \/ hv_reset_weights
    \/ \E count \in 0..MaxCount : hv_get_weights(count)

SpecCursor == CursorInit /\ [][CursorNext]_vars

\* C1: in the plain format, after any sequence of get_weights calls following
\* reset_weights the offset is a multiple of 4 and equals the sum of the
\* requested sizes each rounded up to a multiple of 4, and every call returns
\* a view that starts at the offset held before the call.  Firmware and host
\* verifier alike.
C1_PlainCursorAligned ==
    /\ [](/\ w_offset % 4 = 0 /\ w_offset = w_sum
          /\ hv_w_offset % 4 = 0 /\ hv_w_offset = hv_sum)
    /\ [][/\ (w_calls' = w_calls + 1 => w_view' = w_offset)
          /\ (hv_calls' = hv_calls + 1 => hv_view' = hv_w_offset)]_vars

\* a 3-byte request has moved the cursor from 4 to 8 (firmware)
C1_Witness ==
    /\ pc = "phase_full" /\ w_calls = 2 /\ w_view = 4 /\ w_offset = 8

(***************************************************************************)
(* Encoded-format (BlockDialect-Lite) weight cursor                        *)
(***************************************************************************)
BD_BLOCK_SIZE   == 32
BD_BLOCK_BYTES  == 18
DECODE_BUF_SIZE == 512

\* the block loop of the firmware's get_weights: the loop is left at the first
\* block that does not fit the scratch buffer, before that block is consumed.
\* f = [off, total, slots]
RECURSIVE bd_block_loop(_, _, _)
bd_block_loop_noguard(b, n_blocks, f) ==
    IF b < n_blocks
    THEN bd_block_loop(b + 1, n_blocks,
             [off   |-> f.off + BD_BLOCK_BYTES,
              total |-> f.total + BD_BLOCK_BYTES,
              slots |-> f.slots \cup {b}])
    ELSE f

bd_block_loop(b, n_blocks, f) ==
    IF b < n_blocks
    THEN IF (b + 1) * BD_BLOCK_SIZE > DECODE_BUF_SIZE
         THEN f
         ELSE bd_block_loop(b + 1, n_blocks,
                  [off   |-> f.off + BD_BLOCK_BYTES,
                   total |-> f.total + BD_BLOCK_BYTES,
                   slots |-> f.slots \cup {b}])
    ELSE f

\* reset_weights() of the phase B firmware
bd_reset_weights ==
    /\ pc = "phase_b"
    /\ bd_offset' = 0
    /\ bytes_read_total' = 0
    /\ bd_calls' = 0
    /\ UNCHANGED <<bd_n_blocks, bd_prev, bd_slots>>
    /\ UNCHANGED <<cursorVars, hvVars, hvbVars, decVars, dataVars, runVars>>

\* get_weights(count) of the phase B firmware; n_blocks is the header field
\* found at the cursor.  count is not used by the function.
bd_get_weights(count, n_blocks) ==
    /\ pc = "phase_b"
    /\ bd_calls < MaxCalls
    /\ LET f == bd_block_loop(0, n_blocks,
                    [off   |-> bd_offset + 8,
                     total |-> bytes_read_total + 8,
                     slots |-> {}])
       IN /\ bd_offset' = AlignLoop(f.off)
          /\ bytes_read_total' = f.total
          /\ bd_slots' = f.slots
    /\ bd_n_blocks' = n_blocks
    /\ bd_prev' = bd_offset
    /\ bd_calls' = bd_calls + 1
    /\ UNCHANGED <<cursorVars, hvVars, hvbVars, decVars, dataVars, runVars>>

\* the block loop of the host verifier's get_weights: every block is read
\* from the file, and decoded only when it fits the scratch buffer
RECURSIVE hvb_block_loop(_, _, _)
hvb_block_loop(b, n_blocks, f) ==
    IF b < n_blocks
    THEN hvb_block_loop(b + 1, n_blocks,
             [off   |-> f.off + BD_BLOCK_BYTES,
              total |-> f.total + BD_BLOCK_BYTES,
              fpos  |-> f.fpos + BD_BLOCK_BYTES,
              slots |-> IF (b + 1) * BD_BLOCK_SIZE <= DECODE_BUF_SIZE
                        THEN f.slots \cup {b} ELSE f.slots])
    ELSE f

\* reset_weights() of host_verify_phase_b.c
hvb_reset_weights ==
    /\ pc = "host_verify_phase_b"
    /\ hvb_offset' = 0
    /\ hvb_total' = 0
    /\ hvb_fpos' = 16
    /\ hvb_calls' = 0
    /\ UNCHANGED <<hvb_n_blocks, hvb_prev, hvb_slots>>
    /\ UNCHANGED <<cursorVars, hvVars, bdVars, decVars, dataVars, runVars>>

\* get_weights(count) of host_verify_phase_b.c
hvb_get_weights(count, n_blocks) ==
    /\ pc = "host_verify_phase_b"
    /\ hvb_calls < MaxCalls
    /\ LET f == hvb_block_loop(0, n_blocks,
                    [off   |-> hvb_offset + 8,
                     total |-> hvb_total + 8,
                     fpos  |-> hvb_fpos + 8,
                     slots |-> {}])
           pad == hv_pad(f.off)
       IN /\ hvb_offset' = f.off + pad
          /\ hvb_fpos' = f.fpos + pad
          /\ hvb_total' = f.total
          /\ hvb_slots' = f.slots
    /\ hvb_n_blocks' = n_blocks
    /\ hvb_prev' = hvb_offset
    /\ hvb_calls' = hvb_calls + 1
    /\ UNCHANGED <<cursorVars, hvVars, bdVars, decVars, dataVars, runVars>>

BDInit ==
    /\ pc \in {"phase_b", "host_verify_phase_b"}
    /\ CursorIdle /\ HvIdle /\ BdIdle /\ HvbIdle /\ DecIdle /\ DataIdle /\ RunIdle

\* request sizes drawn for the encoded cursor: a normalization vector and the
\* first-layer tensor
BDCounts == {16, 432}

\* n_blocks header fields drawn: none, one, and around the 16 blocks that fit
\* the scratch buffer
BDBlockCounts == {0, 1, 15, 16, 17, MaxBlocks}

BDNext ==
    \/ bd_reset_weights
    \/ \E count \in BDCounts, n_blocks \in BDBlockCounts :
           bd_get_weights(count, n_blocks)
    \/ hvb_reset_weights
    \/ \E count \in BDCounts, n_blocks \in BDBlockCounts :
           hvb_get_weights(count, n_blocks)

SpecBD == BDInit /\ [][BDNext]_vars

RoundUp4(x) == ((x + 3) \div 4) * 4

\* C2: in the encoded format every get_weights call advances the source
\* offset by exactly 8 + 18 * blockCount bytes and then up to the next
\* multiple of 4, for every blockCount (also one above 16) and whatever the
\* requested count.  Firmware and host verifier alike.
C2_EncodedAdvance ==
    /\ (bd_calls > 0 =>
            bd_offset = RoundUp4(bd_prev + 8 + BD_BLOCK_BYTES * bd_n_blocks))
    /\ (hvb_calls > 0 =>
            hvb_offset = RoundUp4(hvb_prev + 8 + BD_BLOCK_BYTES * hvb_n_blocks))

(***************************************************************************)
(* Block codec (software decode)                                           *)
(***************************************************************************)
BD_NUM_DIALECTS == 16

DIALECT_LUT == <<
    <<0, 1, 2, 3, 4, 4, 4, 4>>,
    <<0, 1, 2, 3, 3, 3, 4, 4>>,
    <<0, 1, 2, 3, 4, 5, 5, 5>>,
    <<0, 1, 2, 3, 3, 4, 5, 5>>,
    <<0, 1, 2, 3, 4, 5, 6, 6>>,
    <<0, 1, 2, 3, 4, 4, 6, 6>>,
    <<0, 1, 2, 3, 4, 5, 6, 7>>,
    <<0, 1, 2, 3, 4, 5, 7, 7>>,
    <<0, 1, 2, 3, 4, 6, 7, 8>>,
    <<0, 1, 2, 3, 4, 6, 8, 8>>,
    <<0, 1, 2, 3, 4, 6, 8, 10>>,
    <<0, 1, 2, 3, 4, 6, 10, 10>>,
    <<0, 1, 2, 3, 4, 6, 10, 12>>,
    <<0, 1, 2, 3, 4, 6, 12, 12>>,
    <<0, 1, 2, 3, 4, 6, 12, 15>>,
    <<0, 1, 2, 3, 4, 6, 13, 15>> >>

\* DIALECT_LUT[dialect_id][idx], both counted from 0 as in the source
Lut(dialect_id, idx) == DIALECT_LUT[dialect_id + 1][idx + 1]

\* uint16_t meta = ((uint16_t)block_data[0] << 8) | block_data[1];
BlockMeta(b) == b[1] * 256 + b[2]
\* (meta >> 12) & 0xF
DialectId(meta) == (meta \div 4096) % 16
\* (meta >> 7) & 0x1F
SharedExp(meta) == (meta \div 128) % 32

\* Outcomes of an int32_t left shift whose result is not representable
\* (undefined in C): "wrap" is the two's-complement result of the shifter,
\* "exact" a build that carries on with the unwrapped (large positive) value.
UBOutcomes == {"wrap", "exact"}

\* mag_scaled << k, 0 <= k <= 30, under outcome ub
ShlMag(mag_scaled, k, ub) ==
    IF mag_scaled <= MaxS32 \div Pow2(k)
    THEN mag_scaled * Pow2(k)
    ELSE IF ub = "wrap" THEN Shl32(mag_scaled, k) ELSE MaxS32

\* -x in int32_t; -INT_MIN keeps the bit pattern of INT_MIN
Neg32(x) == IF x = MinS32 THEN MinS32 ELSE -x

\* one four-bit code to one int8 value (the body shared by the high-nibble
\* and low-nibble halves of decode_block)
decode_nibble_nobias(code, dialect_id, shared_exp, ub) ==
    LET sign       == (code \div 8) % 2
        idx        == code % 8
        mag_scaled == Lut(dialect_id, idx)
        real_mag0  == IF shared_exp = 0
                      THEN Sar(mag_scaled, 1)
                      ELSE ShlMag(mag_scaled, shared_exp - 1, ub)
        real_mag   == IF real_mag0 > 127 THEN 127 ELSE real_mag0
    IN IF sign = 1 THEN ToS8(Neg32(real_mag)) ELSE ToS8(real_mag)

decode_nibble(code, dialect_id, shared_exp, ub) ==
    LET sign       == (code \div 8) % 2
        idx        == code % 8
        mag_scaled == Lut(dialect_id, idx)
        real_mag0  == IF shared_exp = 0
                      THEN Sar(mag_scaled + 1, 1)
                      ELSE ShlMag(mag_scaled, shared_exp - 1, ub)
        real_mag   == IF real_mag0 > 127 THEN 127 ELSE real_mag0
    IN IF sign = 1 THEN ToS8(Neg32(real_mag)) ELSE ToS8(real_mag)

\* decode_block(block_data, out): out[2*i] from the high nibble of packed
\* byte i, out[2*i+1] from its low nibble (out is 1-based here)
decode_block(b, ub) ==
    LET meta       == BlockMeta(b)
        dialect_id == DialectId(meta)
        shared_exp == SharedExp(meta)
    IN [j \in 1..32 |->
           LET i        == (j - 1) \div 2
               byte_val == b[3 + i]
               code_hi  == (byte_val \div 16) % 16
               code_lo  == byte_val % 16
           IN IF (j - 1) % 2 = 0
              THEN decode_nibble(code_hi, dialect_id, shared_exp, ub)
              ELSE decode_nibble(code_lo, dialect_id, shared_exp, ub)]

\* the call decode_block(block_data, out)
DecodeBlock ==
    /\ pc = "decode"
    /\ out = <<>>
    /\ \E ub \in UBOutcomes : out' = decode_block(block_data, ub)
    /\ UNCHANGED <<block_data, runVars, cursorVars, hvVars, bdVars, hvbVars, dataVars>>

\* an 18-byte block: big-endian meta, then 16 packed bytes in which every
\* code value occurs at every nibble position as seed runs over 0..15
MakeBlock(dialect_id, shared_exp, low7, seed) ==
    LET meta == dialect_id * 4096 + shared_exp * 128 + low7
    IN <<meta \div 256, meta % 256>> \o
       [i \in 1..16 |-> 16 * ((seed + i - 1) % 16) + ((seed + 3 * (i - 1) + 8) % 16)]

DecodeInit ==
    /\ pc = "decode"
    /\ \E dialect_id \in 0..(BD_NUM_DIALECTS - 1), shared_exp \in 0..31,
          low7 \in {0, 127}, seed \in 0..MaxSeed :
           block_data = MakeBlock(dialect_id, shared_exp, low7, seed)
    /\ out = <<>>
    /\ CursorIdle /\ HvIdle /\ BdIdle /\ HvbIdle /\ RunIdle /\ DataIdle

DecodeNext == DecodeBlock

SpecDecode == DecodeInit /\ [][DecodeNext]_vars

\* the four-bit code that out[j] (1-based) is decoded from
CodeAt(b, j) ==
    LET byte_val == b[3 + ((j - 1) \div 2)]
    IN IF (j - 1) % 2 = 0 THEN byte_val \div 16 ELSE byte_val % 16

Abs(x) == IF x < 0 THEN -x ELSE x

\* min(127, T * 2^k) without leaving the 32-bit integers
SatShl(T, k) == IF T = 0 THEN 0 ELSE IF k >= 7 THEN 127
                ELSE IF T * Pow2(k) > 127 THEN 127 ELSE T * Pow2(k)

\* C3: for every dialectId, sharedExponent 0..31, index and sign the decoded
\* value has magnitude min(127, (T + 1) >> 1) when sharedExponent = 0 and
\* min(127, T << (sharedExponent - 1)) otherwise, negated when sign = 1.
C3_DecodeClosedForm ==
    out # <<>> =>
        \A j \in 1..32 :
            LET meta == BlockMeta(block_data)
                code == CodeAt(block_data, j)
                T    == Lut(DialectId(meta), code % 8)
                e    == SharedExp(meta)
                mag  == IF e = 0 THEN SatShl((T + 1) \div 2, 0)
                        ELSE SatShl(T, e - 1)
            IN out[j] = IF code >= 8 THEN -mag ELSE mag

\* C4: in the sharedExponent = 0 branch the decoded magnitude equals
\* (dialectTable[id][index] + 1) >> 1 for every table row and index, at the
\* high-nibble and the low-nibble position of every packed byte, and the
\* saturation at 127 is never reached.
C4_ZeroExponentBranch ==
    (out # <<>> /\ SharedExp(BlockMeta(block_data)) = 0) =>
        \A j \in 1..32 :
            LET meta == BlockMeta(block_data)
                code == CodeAt(block_data, j)
                T    == Lut(DialectId(meta), code % 8)
            IN /\ Abs(out[j]) = (T + 1) \div 2
               /\ Abs(out[j]) < 127

\* a block of the last table row decoded with exponent 0: index 6 (13 -> 7)
\* at a high nibble and index 7 (15 -> 8, negative) at a low nibble
C4_Witness ==
    /\ out # <<>>
    /\ SharedExp(BlockMeta(block_data)) = 0
    /\ DialectId(BlockMeta(block_data)) = 15
    /\ \E i \in 0..15 : CodeAt(block_data, 2 * i + 1) = 6 /\ out[2 * i + 1] = 7
    /\ \E i \in 0..15 : CodeAt(block_data, 2 * i + 2) = 15 /\ out[2 * i + 2] = -8

(***************************************************************************)
(* Full-network firmware (hyperram_phase_full): hasher, residual block,    *)
(* stage runner, main                                                      *)
(***************************************************************************)
EXPECTED_HASHES == <<
    743970, 1148311, 1371233, 1505869, 1592664, 1506301, 1537927, 1494775,
    1442395, 1444568, 1444324, 1593279, 1604687, 1632519, 1578824, 1532701,
    1492459, 1554959, 1575567, 531550, 538040, 507086, 473509, 439872,
    437629, 431004, 401338, 370049, 386137, 382667, 407943, 418069,
    425399, 436797, 457982, 432802, 443777, 158757, 119353, 96496,
    78242, 90579, 67833, 60306, 41178, 45329, 38746, 29106,
    42533, 43074, 35130, 50055, 44767, 46696, 148290, 2293 >>

RESNET_N == 18

PLAIN_MAGIC == 1448559152   \* 0x56574230

ShortcutBuf == "buffer_temp"
Buffers == {"buffer_A", "buffer_B"}

\* the cursor after a sequence of get_weights requests
RECURSIVE Consume(_, _)
Consume(off, rs) ==
    IF rs = <<>> THEN off
    ELSE Consume(get_weights_offset(off, Head(rs)), Tail(rs))

\* conv2d_3x3: one request of out_c * in_c * 3 * 3 weights
conv2d_3x3_requests(in_c, out_c) == <<out_c * in_c * 3 * 3>>

\* batch_norm: the scale vector, then the bias vector
batch_norm_requests_fused(channels) == <<2 * channels>>

batch_norm_requests(channels) == <<channels, channels>>

\* checksums the hasher can compute at table index idx: the golden value or
\* another one (the feature-map data is an input of the run)
Sums(idx) == {EXPECTED_HASHES[idx + 1], EXPECTED_HASHES[idx + 1] + 1}

MismatchReport == {"MISMATCH at", "Expected:", "Got:", "STOP."}

\* print_hash variants used to test the claims about it
print_hash_nohalt(name, ret) ==
    /\ hash_idx < 56
    /\ \E sum \in Sums(hash_idx) :
        /\ hash_sum' = sum
        /\ hash_name' = name
        /\ hash_cmp' = hash_idx
        /\ hash_calls' = hash_calls + 1
        /\ IF sum # EXPECTED_HASHES[hash_idx + 1]
           THEN printed' = printed \cup {"Hash"} \cup MismatchReport
           ELSE printed' = printed \cup {"Hash"}
        /\ hash_idx' = hash_idx + 1
        /\ pc' = ret

print_hash_stale(name, ret) ==
    /\ hash_idx < 56
    /\ \E sum \in Sums(hash_idx) :
        /\ hash_sum' = sum
        /\ hash_name' = name
        /\ hash_cmp' = hash_idx
        /\ hash_calls' = hash_calls + 1
        /\ IF sum # EXPECTED_HASHES[hash_idx + 1]
           THEN /\ printed' = printed \cup {"Hash"} \cup MismatchReport
                /\ hash_idx' = hash_idx
                /\ pc' = "halt"
           ELSE /\ printed' = printed \cup {"Hash"}
                /\ hash_idx' = hash_idx
                /\ pc' = ret

\* print_hash(name, buffer, size), returning to ret: the checksum is printed
\* and compared with EXPECTED_HASHES[hash_idx]; a mismatch is reported and the
\* call never returns (while(1);), otherwise hash_idx++
print_hash(name, ret) ==
    /\ hash_idx < 56
    /\ \E sum \in Sums(hash_idx) :
        /\ hash_sum' = sum
        /\ hash_name' = name
        /\ hash_cmp' = hash_idx
        /\ hash_calls' = hash_calls + 1
        /\ IF sum # EXPECTED_HASHES[hash_idx + 1]
           THEN /\ printed' = printed \cup {"Hash"} \cup MismatchReport
                /\ hash_idx' = hash_idx
                /\ pc' = "halt"
           ELSE /\ printed' = printed \cup {"Hash"}
                /\ hash_idx' = hash_idx + 1
                /\ pc' = ret

otherParts == <<cursorVars, hvVars, bdVars, hvbVars, decVars, dataVars>>
hashVars   == <<hash_idx, hash_calls, hash_cmp, hash_name, hash_sum>>

\* ---- basic_block -------------------------------------------------------

\* the frame of basic_block(name, in_buf, out_buf, in_c, out_c, h, w, stride)
\* with out_h, out_w, out_size as computed on entry
basic_block_frame(name, in_buf, out_buf, in_c, out_c, h, w, stride) ==
    [name |-> name, in_buf |-> in_buf, out_buf |-> out_buf,
     in_c |-> in_c, out_c |-> out_c, h |-> h, w |-> w, stride |-> stride,
     out_h |-> h \div stride, out_w |-> w \div stride,
     out_size |-> out_c * (h \div stride) * (w \div stride),
     shortcut |-> "none"]

\* conv2d_3x3(in_buf, out_buf, in_c, out_c, h, w, stride, 1)
bb_conv1 ==
    /\ pc = "bb_conv1"
    /\ LET rs == conv2d_3x3_requests(bb.in_c, bb.out_c)
       IN /\ reqs' = reqs \o rs
          /\ w_offset' = Consume(w_offset, rs)
          /\ w_view' = w_offset
    /\ layers' = layers + 1
    /\ pc' = "bb_bn1"
    /\ UNCHANGED <<w_sum, w_calls, hvVars, bdVars, hvbVars, decVars, dataVars, hashVars,
                   magic, printed, st, bb, prev_bb, stage_no, ret_buf>>

\* the view returned by the last request of a sequence issued at off
LastView(off, rs) == Consume(off, SubSeq(rs, 1, Len(rs) - 1))

\* batch_norm(out_buf, out_c, out_h, out_w, 1)
bb_bn1 ==
    /\ pc = "bb_bn1"
    /\ LET rs == batch_norm_requests(bb.out_c)
       IN /\ reqs' = reqs \o rs
          /\ w_offset' = Consume(w_offset, rs)
          /\ w_view' = LastView(w_offset, rs)
    /\ layers' = layers + 1
    /\ pc' = "bb_shortcut"
    /\ UNCHANGED <<w_sum, w_calls, hvVars, bdVars, hvbVars, decVars, dataVars, hashVars,
                   magic, printed, st, bb, prev_bb, stage_no, ret_buf>>

\* the shortcut into buffer_temp: option_a_downsample when the block changes
\* shape, else a copy of the first out_size input elements
bb_shortcut ==
    /\ pc = "bb_shortcut"
    /\ bb' = [bb EXCEPT !.shortcut =
                 IF bb.stride # 1 \/ bb.in_c # bb.out_c
                 THEN "option_a_downsample" ELSE "copy"]
    /\ layers' = layers + 1
    /\ pc' = "bb_conv2"
    /\ UNCHANGED <<otherParts, hashVars, magic, printed, st, reqs, prev_bb,
                   stage_no, ret_buf>>

\* conv2d_3x3(out_buf, in_buf, out_c, out_c, out_h, out_w, 1, 1)
bb_conv2 ==
    /\ pc = "bb_conv2"
    /\ LET rs == conv2d_3x3_requests(bb.out_c, bb.out_c)
       IN /\ reqs' = reqs \o rs
          /\ w_offset' = Consume(w_offset, rs)
          /\ w_view' = w_offset
    /\ layers' = layers + 1
    /\ pc' = "bb_bn2"
    /\ UNCHANGED <<w_sum, w_calls, hvVars, bdVars, hvbVars, decVars, dataVars, hashVars,
                   magic, printed, st, bb, prev_bb, stage_no, ret_buf>>

\* batch_norm(in_buf, out_c, out_h, out_w, 0)
bb_bn2 ==
    /\ pc = "bb_bn2"
    /\ LET rs == batch_norm_requests(bb.out_c)
       IN /\ reqs' = reqs \o rs
          /\ w_offset' = Consume(w_offset, rs)
          /\ w_view' = LastView(w_offset, rs)
    /\ layers' = layers + 1
    /\ pc' = "bb_add"
    /\ UNCHANGED <<w_sum, w_calls, hvVars, bdVars, hvbVars, decVars, dataVars, hashVars,
                   magic, printed, st, bb, prev_bb, stage_no, ret_buf>>

\* copy of in_buf to out_buf, then add_relu(out_buf, buffer_temp, out_size)
bb_add ==
    /\ pc = "bb_add"
    /\ layers' = layers + 1
    /\ pc' = "bb_hash"
    /\ UNCHANGED <<otherParts, hashVars, magic, printed, st, bb, reqs, prev_bb,
                   stage_no, ret_buf>>

\* print_hash(name, out_buf, out_size), after which basic_block returns
bb_print_hash ==
    /\ pc = "bb_hash"
    /\ print_hash(bb.name, "rs_swap")
    /\ UNCHANGED <<otherParts, magic, layers, st, bb, reqs, prev_bb, stage_no,
                   ret_buf>>

\* ---- run_stage ---------------------------------------------------------

\* the frame of run_stage(stage_prefix, n_blocks, in_c, out_c, h, w,
\* stride_first, in_buf, out_buf) on entry, returning to ret
run_stage_frame(prefix, n_blocks, in_c, out_c, h, w, stride_first, in_buf, out_buf, ret) ==
    [prefix |-> prefix, n_blocks |-> n_blocks, in_c |-> in_c, out_c |-> out_c,
     h |-> h, w |-> w, stride_first |-> stride_first,
     in_buf |-> in_buf, out_buf |-> out_buf,
     current_in |-> in_buf, current_out |-> out_buf, i |-> 0, ret |-> ret]

\* b_in_c, b_h, b_w, b_stride of block i
block_params_samestride(s) ==
    [in_c   |-> IF s.i = 0 THEN s.in_c ELSE s.out_c,
     h      |-> IF s.i = 0 THEN s.h ELSE s.h \div s.stride_first,
     w      |-> IF s.i = 0 THEN s.w ELSE s.w \div s.stride_first,
     stride |-> s.stride_first]

block_params(s) ==
    [in_c   |-> IF s.i = 0 THEN s.in_c ELSE s.out_c,
     h      |-> IF s.i = 0 THEN s.h ELSE s.h \div s.stride_first,
     w      |-> IF s.i = 0 THEN s.w ELSE s.w \div s.stride_first,
     stride |-> IF s.i = 0 THEN s.stride_first ELSE 1]

\* temp = current_in; current_in = current_out; current_out = temp; i++
swap_buffers_noswap(s) == [s EXCEPT !.i = s.i + 1]

swap_buffers(s) ==
    [s EXCEPT !.current_in = s.current_out,
              !.current_out = s.current_in,
              !.i = s.i + 1]

\* loop body up to the call: the block name is built, the telemetry line
\* with w_offset is printed and basic_block is entered
run_stage_block ==
    /\ pc = "rs_loop"
    /\ st.i < st.n_blocks
    /\ printed' = printed \cup {"Block"}
    /\ LET b == block_params(st)
       IN bb' = basic_block_frame([prefix |-> st.prefix, idx |-> st.i],
                                  st.current_in, st.current_out,
                                  b.in_c, st.out_c, b.h, b.w, b.stride)
    /\ reqs' = <<>>
    /\ pc' = "bb_conv1"
    /\ UNCHANGED <<otherParts, hashVars, magic, layers, st, prev_bb, stage_no,
                   ret_buf>>

\* after basic_block has returned: the two buffers change roles
run_stage_swap ==
    /\ pc = "rs_swap"
    /\ st' = swap_buffers(st)
    /\ prev_bb' = bb
    /\ pc' = "rs_loop"
    /\ UNCHANGED <<otherParts, hashVars, magic, printed, layers, bb, reqs,
                   stage_no, ret_buf>>

\* return current_in;
run_stage_return ==
    /\ pc = "rs_loop"
    /\ ~(st.i < st.n_blocks)
    /\ ret_buf' = st.current_in
    /\ pc' = st.ret
    /\ UNCHANGED <<otherParts, hashVars, magic, printed, layers, st, bb, reqs,
                   prev_bb, stage_no>>

\* ---- main --------------------------------------------------------------

\* hash_idx = 0; reset_weights(); the header check, which reports a wrong
\* magic and goes on
main_start ==
    /\ pc = "main_start"
    /\ hash_idx' = 0
    /\ w_offset' = 0
    /\ printed' = IF magic # PLAIN_MAGIC
                  THEN printed \cup {"ALIVE", "Invalid Magic!"}
                  ELSE printed \cup {"ALIVE"}
    /\ pc' = "main_conv1"
    /\ UNCHANGED <<w_view, w_sum, w_calls, hvVars, bdVars, hvbVars, decVars, dataVars,
                   hash_calls, hash_cmp, hash_name, hash_sum, magic, layers,
                   st, bb, reqs, prev_bb, stage_no, ret_buf>>

\* conv2d_3x3(INPUT_DATA, buffer_A, 3, 16, 32, 32, 1, 1)
main_conv1 ==
    /\ pc = "main_conv1"
    /\ LET rs == conv2d_3x3_requests(3, 16)
       IN /\ w_offset' = Consume(w_offset, rs)
          /\ w_view' = w_offset
    /\ layers' = layers + 1
    /\ pc' = "main_bn1"
    /\ UNCHANGED <<w_sum, w_calls, hvVars, bdVars, hvbVars, decVars, dataVars, hashVars,
                   magic, printed, st, bb, reqs, prev_bb, stage_no, ret_buf>>

\* batch_norm(buffer_A, 16, 32, 32, 1)
main_bn1 ==
    /\ pc = "main_bn1"
    /\ LET rs == batch_norm_requests(16)
       IN /\ w_offset' = Consume(w_offset, rs)
          /\ w_view' = LastView(w_offset, rs)
    /\ layers' = layers + 1
    /\ pc' = "main_hash_conv1"
    /\ UNCHANGED <<w_sum, w_calls, hvVars, bdVars, hvbVars, decVars, dataVars, hashVars,
                   magic, printed, st, bb, reqs, prev_bb, stage_no, ret_buf>>

\* print_hash("conv1", buffer_A, 16*32*32)
main_print_hash_conv1 ==
    /\ pc = "main_hash_conv1"
    /\ print_hash([prefix |-> "conv1", idx |-> -1], "main_stage")
    /\ UNCHANGED <<otherParts, magic, layers, st, bb, reqs, prev_bb, stage_no,
                   ret_buf>>

\* other = (current == buffer_A) ? buffer_B : buffer_A;
OtherBuf(current) == IF current = "buffer_A" THEN "buffer_B" ELSE "buffer_A"

\* the three run_stage calls of main with one block more than RESNET_N in
\* the first stage
StageCall_extra(n, current) ==
    IF n = 1
    THEN run_stage_frame("layer1", RESNET_N + 1, 16, 16, 32, 32, 1,
                         "buffer_A", "buffer_B", "main_after_stage")
    ELSE IF n = 2
    THEN run_stage_frame("layer2", RESNET_N, 16, 32, 32, 32, 2,
                         current, OtherBuf(current), "main_after_stage")
    ELSE run_stage_frame("layer3", RESNET_N, 32, 64, 16, 16, 2,
                         current, OtherBuf(current), "main_after_stage")

\* the three run_stage calls of main with the second stage keeping the
\* resolution of the first
StageCall_nostride(n, current) ==
    IF n = 1
    THEN run_stage_frame("layer1", RESNET_N, 16, 16, 32, 32, 1,
                         "buffer_A", "buffer_B", "main_after_stage")
    ELSE IF n = 2
    THEN run_stage_frame("layer2", RESNET_N, 16, 32, 32, 32, 1,
                         current, OtherBuf(current), "main_after_stage")
    ELSE run_stage_frame("layer3", RESNET_N, 32, 64, 16, 16, 2,
                         current, OtherBuf(current), "main_after_stage")

\* the three run_stage calls of main; current is the value returned by the
\* previous stage
StageCall(n, current) ==
    IF n = 1
    THEN run_stage_frame("layer1", RESNET_N, 16, 16, 32, 32, 1,
                         "buffer_A", "buffer_B", "main_after_stage")
    ELSE IF n = 2
    THEN run_stage_frame("layer2", RESNET_N, 16, 32, 32, 32, 2,
                         current, OtherBuf(current), "main_after_stage")
    ELSE run_stage_frame("layer3", RESNET_N, 32, 64, 16, 16, 2,
                         current, OtherBuf(current), "main_after_stage")

main_run_stage ==
    /\ pc = "main_stage"
    /\ stage_no' = stage_no + 1
    /\ st' = StageCall(stage_no + 1, ret_buf)
    /\ prev_bb' = NoFrame
    /\ pc' = "rs_loop"
    /\ UNCHANGED <<otherParts, hashVars, magic, printed, layers, bb, reqs,
                   ret_buf>>

\* current = run_stage(...): on to the next stage, or to the pool
main_after_stage ==
    /\ pc = "main_after_stage"
    /\ pc' = IF stage_no < 3 THEN "main_stage" ELSE "main_pool"
    /\ UNCHANGED <<otherParts, hashVars, magic, printed, layers, st, bb, reqs,
                   prev_bb, stage_no, ret_buf>>

\* avgpool(current, other, 64)
main_avgpool ==
    /\ pc = "main_pool"
    /\ layers' = layers + 1
    /\ pc' = "main_hash_pool"
    /\ UNCHANGED <<otherParts, hashVars, magic, printed, st, bb, reqs,
                   prev_bb, stage_no, ret_buf>>

\* print_hash("pool", other, 64)
main_print_hash_pool ==
    /\ pc = "main_hash_pool"
    /\ print_hash([prefix |-> "pool", idx |-> -1], "main_fc")
    /\ UNCHANGED <<otherParts, magic, layers, st, bb, reqs, prev_bb, stage_no,
                   ret_buf>>

\* the dense layer reads fc_w (10 * 64) and fc_b (10); the logits and the
\* class are printed and compared with the expected ones
main_fc ==
    /\ pc = "main_fc"
    /\ LET rs == <<10 * 64, 10>>
       IN /\ w_offset' = Consume(w_offset, rs)
          /\ w_view' = LastView(w_offset, rs)
    /\ layers' = layers + 1
    /\ \E all_match \in BOOLEAN :
         IF all_match
         THEN /\ printed' = printed \cup {"Final Logits", "PASS"}
              /\ pc' = "done"
         ELSE /\ printed' = printed \cup {"Final Logits", "FAIL"}
              /\ pc' = "halt_fail"
    /\ UNCHANGED <<w_sum, w_calls, hvVars, bdVars, hvbVars, decVars, dataVars, hashVars,
                   magic, st, bb, reqs, prev_bb, stage_no, ret_buf>>

Magics == {PLAIN_MAGIC, PLAIN_MAGIC + 1, 0}

Init ==
    /\ pc = "main_start"
    /\ magic \in Magics
    /\ hash_idx = 0 /\ hash_calls = 0 /\ hash_cmp = -1
    /\ hash_name = NoName /\ hash_sum = 0 /\ printed = {} /\ layers = 0
    /\ st = NoFrame /\ bb = NoFrame /\ reqs = <<>> /\ prev_bb = NoFrame
    /\ stage_no = 0 /\ ret_buf = "none"
    /\ CursorIdle /\ HvIdle /\ BdIdle /\ HvbIdle /\ DecIdle /\ DataIdle

Next ==
    \/ main_start \/ main_conv1 \/ main_bn1 \/ main_print_hash_conv1
    \/ main_run_stage \/ main_after_stage \/ main_avgpool
    \/ main_print_hash_pool \/ main_fc
    \/ run_stage_block \/ run_stage_swap \/ run_stage_return
    \/ bb_conv1 \/ bb_bn1 \/ bb_shortcut \/ bb_conv2 \/ bb_bn2 \/ bb_add
    \/ bb_print_hash

Spec == Init /\ [][Next]_vars

\* run_stage called on its own with small parameters
StageInit ==
    /\ pc = "rs_loop"
    /\ \E n_blocks \in 0..MaxStageBlocks, in_c \in {1, 2}, out_c \in {2, 4},
          h \in 1..MaxDim, w \in {MaxDim - 1, MaxDim}, stride_first \in {1, 2},
          in_buf \in Buffers :
           st = run_stage_frame("layer1", n_blocks, in_c, out_c, h, w,
                                stride_first, in_buf, OtherBuf(in_buf),
                                "stage_done")
    /\ magic = PLAIN_MAGIC
    /\ hash_idx = 0 /\ hash_calls = 0 /\ hash_cmp = -1
    /\ hash_name = NoName /\ hash_sum = 0 /\ printed = {} /\ layers = 0
    /\ bb = NoFrame /\ reqs = <<>> /\ prev_bb = NoFrame
    /\ stage_no = 0 /\ ret_buf = "none"
    /\ CursorIdle /\ HvIdle /\ BdIdle /\ HvbIdle /\ DecIdle /\ DataIdle

StageSpecNext ==
    \/ run_stage_block \/ run_stage_swap \/ run_stage_return
    \/ bb_conv1 \/ bb_bn1 \/ bb_shortcut \/ bb_conv2 \/ bb_bn2 \/ bb_add
    \/ bb_print_hash

SpecStage == StageInit /\ [][StageSpecNext]_vars

(***************************************************************************)
(* Properties of the run                                                   *)
(***************************************************************************)

\* the last print_hash call computed a checksum other than the golden entry
Mismatched ==
    hash_calls > 0 /\ hash_sum # EXPECTED_HASHES[hash_cmp + 1]

\* C5: once print_hash has computed a checksum that differs from the golden
\* entry at the cursor, name/expected/actual are reported and the run halts
\* for good: no further layer is computed, no further weights are consumed,
\* no later golden entry is compared and PASS is never reported.
C5_IntegrityFailureTerminal ==
    /\ [](Mismatched =>
            /\ MismatchReport \subseteq printed
            /\ "PASS" \notin printed
            /\ pc = "halt")
    /\ [][Mismatched =>
            (pc' = pc /\ UNCHANGED <<w_offset, layers, hash_idx, hash_calls,
                                     hash_cmp, printed>>)]_vars

\* the run has halted on a mismatch of layer1_3, after four matching layers
C5_Witness ==
    /\ Mismatched /\ pc = "halt"
    /\ hash_name = [prefix |-> "layer1", idx |-> 3] /\ hash_cmp = 4
    /\ "STOP." \in printed

\* C6 as stated: the golden-table cursor is incremented by exactly one on
\* every print_hash call, whether or not the checksum matched, and the k-th
\* call compares against entry k-1.
C6_CursorEveryCall ==
    [][hash_calls' = hash_calls + 1 =>
          (hash_idx' = hash_idx + 1 /\ hash_cmp' = hash_calls)]_vars

\* C6 amended: the k-th print_hash call compares against entry k-1; the
\* cursor is incremented by exactly one by a call whose checksum matched and
\* is left unchanged by a call whose checksum did not match (that call never
\* returns).
C6_CursorOnMatch ==
    [][hash_calls' = hash_calls + 1 =>
          (hash_cmp' = hash_calls /\ hash_cmp' = hash_idx /\
           hash_idx' = IF hash_sum' = EXPECTED_HASHES[hash_cmp' + 1]
                       THEN hash_idx + 1 ELSE hash_idx)]_vars

\* three calls made: two matched, the third did not and left the cursor at 2
C6_Witness ==
    /\ hash_calls = 3 /\ hash_cmp = 2 /\ hash_idx = 2 /\ Mismatched

\* a call that matched: the cursor has moved from 4 to 5
C6_WitnessMatch ==
    /\ hash_calls = 5 /\ hash_cmp = 4 /\ hash_idx = 5 /\ ~Mismatched

\* C7: when header[0] is not the expected magic the error is reported and
\* the run is aborted: no weights are consumed and no convolution,
\* normalization or checksum step executes afterwards.
C7_FormatErrorAborts ==
    "Invalid Magic!" \in printed =>
        /\ w_offset = 0
        /\ layers = 0
        /\ hash_calls = 0

\* the six requests of a block with the sizes of the frame f
BlockRequests(f) ==
    <<f.out_c * f.in_c * 9, f.out_c, f.out_c,
      f.out_c * f.out_c * 9, f.out_c, f.out_c>>

\* number of requests a block has issued when it stands at a position
IssuedAt(p) ==
    CASE p = "bb_conv1"    -> 0
      [] p = "bb_bn1"      -> 1
      [] p = "bb_shortcut" -> 3
      [] p = "bb_conv2"    -> 3
      [] p = "bb_bn2"      -> 4
      [] p = "bb_add"      -> 6
      [] p = "bb_hash"     -> 6
      [] p = "rs_swap"     -> 6

BlockPositions ==
    {"bb_conv1", "bb_bn1", "bb_shortcut", "bb_conv2", "bb_bn2", "bb_add",
     "bb_hash", "rs_swap"}

\* C8: one basic_block issues exactly six cursor requests, in the order and
\* sizes conv1 weights (outC*inC*9), conv1 scale (outC), conv1 bias (outC),
\* conv2 weights (outC*outC*9), conv2 scale (outC), conv2 bias (outC); the
\* shortcut step and the final add+rectify issue none and leave the cursor
\* offset unchanged.
C8_BlockRequestOrder ==
    /\ [](pc \in BlockPositions =>
            reqs = SubSeq(BlockRequests(bb), 1, IssuedAt(pc)))
    /\ [][(pc \in {"bb_shortcut", "bb_add"}) =>
            (w_offset' = w_offset /\ reqs' = reqs)]_vars

\* a shape-changing block (downsample shortcut) has issued its six requests
C8_Witness ==
    /\ pc = "rs_swap" /\ bb.shortcut = "option_a_downsample"
    /\ bb.in_c = 1 /\ bb.out_c = 4
    /\ reqs = <<36, 4, 4, 144, 4, 4>>

\* C9: in a stage of n >= 1 blocks the buffer written by block i is the
\* buffer read by block i+1, the two roles are exchanged after every block,
\* run_stage returns the buffer the last block wrote to (out_buf when n is
\* odd, in_buf when n is even), and at every block call the input and output
\* buffers are distinct and neither is the shortcut buffer.
C9_BufferRotation ==
    /\ (pc \in BlockPositions =>
          /\ bb.in_buf # bb.out_buf
          /\ bb.in_buf # ShortcutBuf /\ bb.out_buf # ShortcutBuf
          /\ (st.i >= 1 =>
                /\ bb.in_buf = prev_bb.out_buf
                /\ bb.out_buf = prev_bb.in_buf))
    /\ ((pc = "stage_done" /\ st.n_blocks >= 1) =>
          /\ ret_buf = prev_bb.out_buf
          /\ ret_buf = IF st.n_blocks % 2 = 1 THEN st.out_buf ELSE st.in_buf)

\* a stage of three blocks has returned its out_buf
C9_Witness ==
    /\ pc = "stage_done" /\ st.n_blocks = 3 /\ st.i = 3
    /\ st.in_buf = "buffer_B" /\ ret_buf = "buffer_A"

\* C10: block 0 of a stage runs with (inChannels, h, w, stride) of the
\* stage, every block i >= 1 with (outChannels, h/stride, w/stride, 1), so the
\* input shape of every block i >= 1 is the output shape of block i-1.
C10_BlockParameters ==
    pc \in BlockPositions =>
        /\ (st.i = 0 =>
              /\ bb.in_c = st.in_c /\ bb.h = st.h /\ bb.w = st.w
              /\ bb.stride = st.stride_first)
        /\ (st.i >= 1 =>
              /\ bb.in_c = st.out_c
              /\ bb.h = st.h \div st.stride_first
              /\ bb.w = st.w \div st.stride_first
              /\ bb.stride = 1
              /\ bb.in_c = prev_bb.out_c
              /\ bb.h = prev_bb.out_h
              /\ bb.w = prev_bb.out_w)
        /\ bb.out_c = st.out_c

\* block 1 of a stride-2 stage over a 5 x 5 input runs on 2 x 2 with stride 1
C10_Witness ==
    /\ pc = "bb_conv1" /\ st.i = 1 /\ st.stride_first = 2
    /\ st.h = 5 /\ st.w = 5 /\ st.in_c = 1 /\ st.out_c = 4
    /\ bb.in_c = 4 /\ bb.h = 2 /\ bb.w = 2 /\ bb.stride = 1

\* C18: whatever blockCount a tensor record header holds, a tensor decode
\* writes only decode-buffer indices 0..511: block b is decoded only when
\* (b + 1) * 32 <= 512, so at most the first 16 blocks are written, every
\* further block is dropped, and the call returns normally without any error
\* report.  Firmware and host verifier alike.
C18_DecodeCapacity ==
    /\ (bd_calls > 0 =>
          /\ bd_slots = {b \in 0..(bd_n_blocks - 1) : (b + 1) * 32 <= 512}
          /\ \A b \in bd_slots : b * 32 >= 0 /\ b * 32 + 31 <= 511
          /\ Cardinality(bd_slots) <= 16)
    /\ (hvb_calls > 0 =>
          /\ hvb_slots = {b \in 0..(hvb_n_blocks - 1) : (b + 1) * 32 <= 512}
          /\ \A b \in hvb_slots : b * 32 >= 0 /\ b * 32 + 31 <= 511
          /\ Cardinality(hvb_slots) <= 16)
    /\ printed = {}

\* the firmware has read a record of 18 blocks and written slots 0..15 only
C18_Witness ==
    /\ pc = "phase_b" /\ bd_calls = 1 /\ bd_n_blocks = 18
    /\ bd_slots = 0..15

(***************************************************************************)
(* Input data drawn for the primitives run on their own                    *)
(***************************************************************************)
MaxPat == 2     \* pattern strides 0..MaxPat of the drawn data vectors

\* int8 values that data patterns are made of
Vals == <<-128, -1, 0, 1, 127>>

\* element k of the pattern with stride a and phase b
Pat(a, b, k) == Vals[((a * k + b) % 5) + 1]

(***************************************************************************)
(* Classifier head of main(): dense layer and arg-max                      *)
(***************************************************************************)
FC_CLASSES  == 10
FC_CHANNELS == 64
BEST_SCORE_INIT == -9999999

\* sum over c < n of other[c] * fc_w[i * 64 + c]; fc_w is a view into the blob
RECURSIVE fc_dot(_, _, _, _)
fc_dot(h, i, n, acc) ==
    IF n = 0 THEN acc
    ELSE fc_dot(h, i, n - 1,
                acc + h.pooled[n] * h.blob[h.fc_w + i * FC_CHANNELS + n])

\* if (sum > best_score)
fc_better_orequal(sum, best_score) == sum >= best_score

fc_better(sum, best_score) == sum > best_score

\* const int8_t* fc_w = get_weights(10 * 64); fc_b = get_weights(10);
\* best_class = 0; best_score = -9999999;
head_get_weights ==
    /\ pc = "head_weights"
    /\ LET rs == <<FC_CLASSES * FC_CHANNELS, FC_CLASSES>>
       IN /\ w_offset' = Consume(w_offset, rs)
          /\ w_view' = LastView(w_offset, rs)
          /\ head' = [head EXCEPT !.fc_w = w_offset,
                                  !.fc_b = LastView(w_offset, rs),
                                  !.best_class = 0,
                                  !.best_score = BEST_SCORE_INIT]
    /\ pc' = "head_loop"
    /\ UNCHANGED <<cv, bn, ds, blk, hw>>
    /\ UNCHANGED <<w_sum, w_calls, hvVars, bdVars, hvbVars, decVars, hashVars,
                   magic, printed, layers, st, bb, reqs, prev_bb, stage_no,
                   ret_buf>>

\* one iteration of for(int i=0; i<10; i++): the logit of class i and the
\* running best
head_class ==
    /\ pc = "head_loop"
    /\ head.i < FC_CLASSES
    /\ LET sum == fc_dot(head, head.i, FC_CHANNELS, 0)
                  + head.blob[head.fc_b + head.i + 1]
           better == fc_better(sum, head.best_score)
       IN head' = [head EXCEPT
                     !.logits = Append(head.logits, sum),
                     !.best_score = IF better THEN sum ELSE head.best_score,
                     !.best_class = IF better THEN head.i ELSE head.best_class,
                     !.i = head.i + 1]
    /\ UNCHANGED <<pc, cv, bn, ds, blk, hw, cursorVars, hvVars, bdVars, hvbVars, decVars, hashVars, magic, printed, layers, st, bb, reqs, prev_bb, stage_no, ret_buf>>

\* the loop is left with logits[0..9], best_class and best_score
head_done ==
    /\ pc = "head_loop"
    /\ ~(head.i < FC_CLASSES)
    /\ pc' = "head_done"
    /\ UNCHANGED <<head, cv, bn, ds, blk, hw, cursorVars, hvVars, bdVars, hvbVars, decVars, hashVars, magic, printed, layers, st, bb, reqs, prev_bb, stage_no, ret_buf>>

\* the blob at the cursor: fc_w with a constant row per class, then fc_b
HeadBlob(wa, wb, ba, bb0) ==
    [k \in 1..652 |->
        IF k <= 640 THEN Pat(wa, wb, (k - 1) \div FC_CHANNELS)
        ELSE IF k <= 650 THEN Pat(ba, bb0, k - 641)
        ELSE 0]

HeadInit ==
    /\ pc = "head_weights"
    /\ \E pa \in 0..1, pb \in 0..4, wa \in 0..MaxPat, wb \in 0..4,
          ba \in 0..MaxPat, bb0 \in {0, 2, 4} :
         head = [op |-> "head",
                 pooled |-> [c \in 1..FC_CHANNELS |-> Pat(pa, pb, c - 1)],
                 blob |-> HeadBlob(wa, wb, ba, bb0),
                 fc_w |-> NoView, fc_b |-> NoView,
                 i |-> 0, logits |-> <<>>,
                 best_class |-> 0, best_score |-> 0]
    /\ cv = NoData /\ bn = NoData /\ ds = NoData /\ blk = NoData /\ hw = NoData
    /\ CursorIdle /\ HvIdle /\ BdIdle /\ HvbIdle /\ DecIdle /\ RunIdle

HeadNext == head_get_weights \/ head_class \/ head_done

SpecHead == HeadInit /\ [][HeadNext]_vars

\* the largest of the logits
RECURSIVE MaxOf(_)
MaxOf(q) == IF Len(q) = 1 THEN q[1]
            ELSE LET m == MaxOf(Tail(q)) IN IF q[1] > m THEN q[1] ELSE m

\* C11: the predicted class is the smallest index in 0..9 whose logit equals
\* the maximum of the 10 logits (ties go to the earlier index); every logit
\* a signed 8-bit pooled vector and signed 8-bit weights can give lies above
\* the initial best score -9999999, so logit 0 always replaces it.
C11_ArgMaxFirstWins ==
    /\ (pc = "head_done" =>
          /\ Len(head.logits) = 10
          /\ head.logits[head.best_class + 1] = MaxOf(head.logits)
          /\ head.best_score = MaxOf(head.logits)
          /\ \A j \in 0..9 :
                head.logits[j + 1] = MaxOf(head.logits) => head.best_class <= j)
    /\ (pc \in {"head_loop", "head_done"} =>
          \A j \in 1..Len(head.logits) :
              /\ head.logits[j] > BEST_SCORE_INIT
              /\ head.logits[j] >= -(64 * 128 * 127) - 128
              /\ head.logits[j] <= 64 * 128 * 128 + 127)

\* classes 2 and 7 tie for the maximum and class 2 is predicted
C11_Witness ==
    /\ pc = "head_done"
    /\ head.best_class = 2
    /\ head.logits[3] = head.logits[8]
    /\ head.logits[1] < head.logits[3]

\* all ten logits are equal and negative: class 0 is predicted
C11_WitnessAllTie ==
    /\ pc = "head_done"
    /\ head.best_class = 0
    /\ head.logits[1] < 0
    /\ \A j \in 1..10 : head.logits[j] = head.logits[1]

\* the run variables a primitive run on its own leaves alone
runRest == <<hashVars, magic, printed, layers, st, bb, reqs, prev_bb,
             stage_no, ret_buf>>

(***************************************************************************)
(* conv2d_3x3 on data: the full-network kernel (phase_full) and the        *)
(* first-layer kernel (phase_a firmware, host_verify.c: the same text)     *)
(***************************************************************************)
MaxExtent == 3     \* largest h, w of a feature map drawn in SpecConv

\* content of an output buffer before a call writes to it
STALE == 85

\* <<stride, phase>> of the input patterns and of the weight patterns drawn
ConvInputPats  == {<<0, 0>>, <<0, 2>>, <<0, 3>>, <<0, 4>>, <<1, 0>>}
ConvWeightPats == {<<0, 0>>, <<0, 1>>, <<0, 4>>, <<MaxPat, 1>>}

\* out_h = h / stride; out_w = w / stride
conv_out_h(c) == c.h \div c.stride
conv_out_w(c) == c.w \div c.stride

\* the value a tap contributes: input[ic*h*w + iy*w + ix] inside the map,
\* nothing (val = 0 in the first-layer kernel) outside it
conv_tap_padone(c, ic, iy, ix) ==
    IF iy >= 0 /\ iy < c.h /\ ix >= 0 /\ ix < c.w
    THEN c.input[ic * c.h * c.w + iy * c.w + ix]
    ELSE 1

conv_tap(c, ic, iy, ix) ==
    IF iy >= 0 /\ iy < c.h /\ ix >= 0 /\ ix < c.w
    THEN c.input[ic * c.h * c.w + iy * c.w + ix]
    ELSE 0

\* sum += val * w_val over ic, ky, kx for the window whose origin is (y0, x0);
\* row[ic * 9 + ky * 3 + kx] is the weight the kernel reads for the tap
RECURSIVE conv_acc(_, _, _, _, _, _)
conv_acc(c, row, y0, x0, t, acc) ==
    IF t = 0 THEN acc
    ELSE LET k  == t - 1
             ic == k \div 9
             ky == (k % 9) \div 3
             kx == k % 3
         IN conv_acc(c, row, y0, x0, k,
                     acc + conv_tap(c, ic, y0 + ky, x0 + kx) * row[k])

\* (int8_t)(sum >> 7)
conv_rescale_trunc(sum) == ToS8(IF sum < 0 THEN -((-sum) \div 128) ELSE sum \div 128)

conv_rescale(sum) == ToS8(Sar(sum, 7))

\* weights[((oc * in_c + ic) * 3 + ky) * 3 + kx] of the first-layer kernel
conv_weights_direct(c, oc) ==
    [k \in 0..(c.in_c * 9 - 1) |->
        c.blob[c.weights + ((oc * c.in_c + (k \div 9)) * 3 + ((k % 9) \div 3)) * 3
               + (k % 3)]]

\* the cache filled with a row stride of 9 instead of in_c * 9
conv_weights_cached_onechannel(c, oc) ==
    [i \in 0..(c.in_c * 9 - 1) |-> c.blob[c.weights + oc * 9 + i]]

\* channel_weight_cache[i] = weights[oc * in_c * 9 + i] for i < in_c * 9
conv_weights_cached(c, oc) ==
    [i \in 0..(c.in_c * 9 - 1) |-> c.blob[c.weights + oc * c.in_c * 9 + i]]

\* const int8_t* weights = get_weights(w_count); (both kernels)
conv2d_3x3_begin ==
    /\ pc = "conv_call"
    /\ LET rs == conv2d_3x3_requests(cv.in_c, cv.out_c)
       IN /\ w_offset' = Consume(w_offset, rs)
          /\ w_view' = LastView(w_offset, rs)
          /\ cv' = [cv EXCEPT !.weights = w_offset, !.oc = 0]
    /\ pc' = "conv_oc"
    /\ UNCHANGED <<w_sum, w_calls, hvVars, bdVars, hvbVars, decVars, runRest>>
    /\ UNCHANGED <<head, bn, ds, blk, hw>>

\* full-network kernel, head of the oc loop: fill channel_weight_cache
conv2d_3x3_cache ==
    /\ pc = "conv_oc"
    /\ cv.kernel = "full"
    /\ cv.oc < cv.out_c
    /\ cv' = [cv EXCEPT !.cache = conv_weights_cached(cv, cv.oc),
                        !.y = 0, !.x = 0]
    /\ pc' = "conv_yx"
    /\ UNCHANGED <<cursorVars, hvVars, bdVars, hvbVars, decVars, runRest>>
    /\ UNCHANGED <<head, bn, ds, blk, hw>>

\* full-network kernel, body of the y, x loops over output coordinates
conv2d_3x3_write ==
    /\ pc = "conv_yx"
    /\ cv.kernel = "full"
    /\ cv.y < conv_out_h(cv) /\ cv.x < conv_out_w(cv)
    /\ LET out_h == conv_out_h(cv)
           out_w == conv_out_w(cv)
           in_y_base == cv.y * cv.stride - cv.padding
           in_x_base == cv.x * cv.stride - cv.padding
           sum == conv_acc(cv, cv.cache, in_y_base, in_x_base, cv.in_c * 9, 0)
           idx == (cv.oc * out_h * out_w) + (cv.y * out_w) + cv.x
           last == cv.x + 1 >= out_w
       IN cv' = [cv EXCEPT
                   !.output = [cv.output EXCEPT ![idx] = conv_rescale(sum)],
                   !.writes = Append(cv.writes,
                                     [idx |-> idx, sum |-> sum,
                                      val |-> conv_rescale(sum)]),
                   !.x = IF last THEN 0 ELSE cv.x + 1,
                   !.y = IF last THEN cv.y + 1 ELSE cv.y]
    /\ UNCHANGED <<pc, cursorVars, hvVars, bdVars, hvbVars, decVars, runRest>>
    /\ UNCHANGED <<head, bn, ds, blk, hw>>

\* first-layer kernel, head of the oc loop
conv2d_3x3_first_oc ==
    /\ pc = "conv_oc"
    /\ cv.kernel = "first"
    /\ cv.oc < cv.out_c
    /\ cv' = [cv EXCEPT !.y = 0, !.x = 0]
    /\ pc' = "conv_yx"
    /\ UNCHANGED <<cursorVars, hvVars, bdVars, hvbVars, decVars, runRest>>
    /\ UNCHANGED <<head, bn, ds, blk, hw>>

\* first-layer kernel, body of for (y = 0; y < h; y += stride) and the same
\* loop over x: input coordinates
conv2d_3x3_first_write ==
    /\ pc = "conv_yx"
    /\ cv.kernel = "first"
    /\ cv.y < cv.h /\ cv.x < cv.w
    /\ LET sum == conv_acc(cv, conv_weights_direct(cv, cv.oc),
                           cv.y - cv.padding, cv.x - cv.padding,
                           cv.in_c * 9, 0)
           oy == cv.y \div cv.stride
           ox == cv.x \div cv.stride
           ow == cv.w \div cv.stride
           idx == (cv.oc * (cv.h \div cv.stride) * ow) + (oy * ow) + ox
           last == cv.x + cv.stride >= cv.w
       IN cv' = [cv EXCEPT
                   !.output = [cv.output EXCEPT ![idx] = conv_rescale(sum)],
                   !.writes = Append(cv.writes,
                                     [idx |-> idx, sum |-> sum,
                                      val |-> conv_rescale(sum)]),
                   !.x = IF last THEN 0 ELSE cv.x + cv.stride,
                   !.y = IF last THEN cv.y + cv.stride ELSE cv.y]
    /\ UNCHANGED <<pc, cursorVars, hvVars, bdVars, hvbVars, decVars, runRest>>
    /\ UNCHANGED <<head, bn, ds, blk, hw>>

\* the y loop is left: next output channel (both kernels)
conv2d_3x3_next ==
    /\ pc = "conv_yx"
    /\ IF cv.kernel = "full"
       THEN ~(cv.y < conv_out_h(cv) /\ cv.x < conv_out_w(cv))
       ELSE ~(cv.y < cv.h /\ cv.x < cv.w)
    /\ cv' = [cv EXCEPT !.oc = cv.oc + 1]
    /\ pc' = "conv_oc"
    /\ UNCHANGED <<cursorVars, hvVars, bdVars, hvbVars, decVars, runRest>>
    /\ UNCHANGED <<head, bn, ds, blk, hw>>

\* the oc loop is left (both kernels)
conv2d_3x3_return ==
    /\ pc = "conv_oc"
    /\ ~(cv.oc < cv.out_c)
    /\ pc' = "conv_done"
    /\ UNCHANGED <<cv, cursorVars, hvVars, bdVars, hvbVars, decVars, runRest>>
    /\ UNCHANGED <<head, bn, ds, blk, hw>>

\* a call conv2d_3x3(input, output, in_c, out_c, h, w, stride, padding) with
\* the cursor at the start of the blob
ConvCall(kernel, in_c, out_c, h, w, stride, padding, ip, wp) ==
    [op |-> "conv", kernel |-> kernel,
     in_c |-> in_c, out_c |-> out_c, h |-> h, w |-> w,
     stride |-> stride, padding |-> padding,
     input  |-> [k \in 0..(in_c * h * w - 1) |-> Pat(ip[1], ip[2], k)],
     blob   |-> [k \in 0..(out_c * in_c * 9 - 1) |-> Pat(wp[1], wp[2], k)],
     output |-> [k \in 0..(out_c * h * w) |-> STALE],
     weights |-> NoView,
     cache  |-> [k \in 0..(in_c * 9 - 1) |-> 0],
     oc |-> 0, y |-> 0, x |-> 0,
     writes |-> <<>>]

\* <<h, w>> of the feature maps drawn: every extent up to MaxExtent, and two
\* maps that stride 2 divides into more than one output row or column
ConvShapes ==
    {<<h, w>> : h \in 1..MaxExtent, w \in 1..MaxExtent} \cup {<<4, 4>>, <<2, 4>>}

ConvInit ==
    /\ pc = "conv_call"
    /\ \E kernel \in {"full", "first"}, in_c \in 1..2, out_c \in 1..2,
          shape \in ConvShapes, stride \in 1..2,
          padding \in 0..1, ip \in ConvInputPats, wp \in ConvWeightPats :
         cv = ConvCall(kernel, in_c, out_c, shape[1], shape[2], stride,
                       padding, ip, wp)
    /\ head = NoData /\ bn = NoData /\ ds = NoData /\ blk = NoData
    /\ hw = NoData
    /\ CursorIdle /\ HvIdle /\ BdIdle /\ HvbIdle /\ DecIdle /\ RunIdle

ConvNext ==
    \/ conv2d_3x3_begin
    \/ conv2d_3x3_cache
    \/ conv2d_3x3_write
    \/ conv2d_3x3_first_oc
    \/ conv2d_3x3_first_write
    \/ conv2d_3x3_next
    \/ conv2d_3x3_return

SpecConv == ConvInit /\ [][ConvNext]_vars

\* floor(sum / 128), computed without the shift
FloorDiv128(sum) == (sum - (sum % 128)) \div 128

\* the signed value of the low 8 bits of q
Low8(q) == ((q + 128) % 256) - 128

\* C12: every output element a convolution stores equals floor(sum / 128)
\* reduced to its low 8 bits as a signed value, where sum is the accumulation
\* over all input channels and the 3x3 window, which fits 32 bits; the shift
\* rounds toward negative infinity and out-of-range results wrap modulo 256.
C12_ConvRescale ==
    cv.op = "conv" =>
       \A j \in 1..Len(cv.writes) :
          LET wr == cv.writes[j]
          IN /\ wr.sum >= MinS32 /\ wr.sum <= MaxS32
             /\ wr.val = Low8(FloorDiv128(wr.sum))
             /\ wr.val \in -128..127
             /\ cv.output[wr.idx] \in -128..127
             /\ (wr.sum = -1 => wr.val = -1)
             /\ (wr.sum = 128 * 128 => wr.val = -128)

\* a full-network convolution stored -1 for the sum -1
C12_Witness ==
    /\ pc = "conv_done" /\ cv.kernel = "full"
    /\ \E j \in 1..Len(cv.writes) :
          cv.writes[j].sum = -1 /\ cv.writes[j].val = -1
             /\ cv.output[cv.writes[j].idx] = -1

\* a first-layer convolution stored a wrapped value: the quotient is above 127
C12_WitnessWrap ==
    /\ pc = "conv_done" /\ cv.kernel = "first"
    /\ \E j \in 1..Len(cv.writes) :
          cv.writes[j].sum >= 128 * 128 /\ cv.writes[j].val < 0

\* the feature map [out_c, h / stride, w / stride] of a returned call
ConvExtent(c) == 0..(c.out_c * conv_out_h(c) * conv_out_w(c) - 1)

ZeroInput(c) == \A k \in DOMAIN c.input : c.input[k] = 0

\* C13: a convolution whose input feature map is all zero leaves an all-zero
\* output feature map, whatever the weights, channel counts, stride and
\* padding.
C13_ZeroInputZeroOutput ==
    (pc = "conv_done" /\ ZeroInput(cv)) =>
        /\ (cv.kernel = "full" => \A k \in ConvExtent(cv) : cv.output[k] = 0)
        /\ \A j \in 1..Len(cv.writes) : cv.writes[j].val = 0

\* zero input, nonzero weights, padding 1 and stride 2 on a 2-channel 3x3 map
C13_Witness ==
    /\ pc = "conv_done" /\ cv.kernel = "full" /\ ZeroInput(cv)
    /\ cv.padding = 1 /\ cv.stride = 2 /\ cv.in_c = 2 /\ cv.h = 3 /\ cv.w = 3
    /\ cv.blob[0] = 127
    /\ Len(cv.writes) = cv.out_c
    /\ cv.output[0] = 0

\* the value of output element idx of the feature map [out_c, out_h, out_w]:
\* the window whose origin is (oy * stride - padding, ox * stride - padding)
ConvElement(c, idx) ==
    LET plane == conv_out_h(c) * conv_out_w(c)
        oc == idx \div plane
        oy == (idx % plane) \div conv_out_w(c)
        ox == idx % conv_out_w(c)
    IN conv_rescale(conv_acc(c, conv_weights_direct(c, oc),
                             oy * c.stride - c.padding,
                             ox * c.stride - c.padding, c.in_c * 9, 0))

\* each element of the extent written exactly once with its value, and no
\* write outside the extent
ConvWritesExact(c) ==
    /\ \A j \in 1..Len(c.writes) : c.writes[j].idx \in ConvExtent(c)
    /\ \A k \in ConvExtent(c) :
          /\ Cardinality({j \in 1..Len(c.writes) : c.writes[j].idx = k}) = 1
          /\ c.output[k] = ConvElement(c, k)

\* C19: for every h, w >= 1 and stride >= 1, multiples of the stride or not,
\* a returned convolution has written each of the out_c * floor(h / stride) *
\* floor(w / stride) output elements exactly once, with the value of the
\* window whose origin is (oy * stride - padding, ox * stride - padding), and
\* has written no index outside that range.
C19_OutputExtent ==
    pc = "conv_done" => ConvWritesExact(cv)

(***************************************************************************)
(* batch_norm / batch_norm_relu on data, the five implementations          *)
(***************************************************************************)
\* phase_full and phase_a read the parameters in the memory-mapped blob; the
\* others get them in one buffer that every request overwrites (decode_buf
\* of phase_b and host_verify_phase_b.c, weight_buf of host_verify.c)
BnImpls == {"phase_full", "phase_a", "phase_b", "host_phase_b", "host"}

BnShared(impl) == impl \in {"phase_b", "host_phase_b", "host"}

\* header field n_blocks of an encoded tensor record of count elements
TensorBlocks(count) == (count + BD_BLOCK_SIZE - 1) \div BD_BLOCK_SIZE

\* <<stride, phase>> of the patterns drawn for the feature map, the scale
\* vector and the bias vector
BnMapPats   == {<<0, 0>>, <<0, 1>>, <<0, 2>>, <<0, 3>>, <<0, 4>>, <<1, 0>>}
BnScalePats == {<<0, 0>>, <<0, 1>>, <<0, 2>>, <<0, 3>>, <<0, 4>>, <<MaxPat, 1>>}
BnBiasPats  == {<<0, 0>>, <<0, 1>>, <<0, 2>>, <<0, 3>>, <<0, 4>>}

\* the vector a pointer returned by get_weights reads now
BnDeref(b, p) ==
    IF p = "scratch" THEN b.scratch
    ELSE IF p = "first" THEN b.tensors[1]
    ELSE b.tensors[2]

\* get_weights(channels) of the implementation: the cursor it moves
bn_get_weights(count) ==
    /\ IF bn.impl \in {"phase_full", "phase_a"}
       THEN /\ w_view' = w_offset
            /\ w_offset' = get_weights_offset(w_offset, count)
            /\ UNCHANGED <<w_sum, w_calls>>
       ELSE UNCHANGED cursorVars
    /\ IF bn.impl = "host"
       THEN /\ hv_cap' = IF count > hv_cap THEN count ELSE hv_cap
            /\ hv_view' = hv_fpos - 16
            /\ hv_w_offset' = hv_w_offset + count + hv_pad(hv_w_offset + count)
            /\ hv_fpos' = hv_fpos + count + hv_pad(hv_w_offset + count)
            /\ UNCHANGED <<hv_sum, hv_calls>>
       ELSE UNCHANGED hvVars
    /\ IF bn.impl = "phase_b"
       THEN LET f == bd_block_loop(0, TensorBlocks(count),
                         [off   |-> bd_offset + 8,
                          total |-> bytes_read_total + 8,
                          slots |-> {}])
            IN /\ bd_offset' = AlignLoop(f.off)
               /\ bytes_read_total' = f.total
               /\ bd_slots' = f.slots
               /\ bd_n_blocks' = TensorBlocks(count)
               /\ bd_prev' = bd_offset
               /\ UNCHANGED bd_calls
       ELSE UNCHANGED bdVars
    /\ IF bn.impl = "host_phase_b"
       THEN LET f == hvb_block_loop(0, TensorBlocks(count),
                         [off   |-> hvb_offset + 8,
                          total |-> hvb_total + 8,
                          fpos  |-> hvb_fpos + 8,
                          slots |-> {}])
            IN /\ hvb_offset' = f.off + hv_pad(f.off)
               /\ hvb_fpos' = f.fpos + hv_pad(f.off)
               /\ hvb_total' = f.total
               /\ hvb_slots' = f.slots
               /\ hvb_n_blocks' = TensorBlocks(count)
               /\ hvb_prev' = hvb_offset
               /\ UNCHANGED hvb_calls
       ELSE UNCHANGED hvbVars

\* const int8_t* bn_weight = get_weights(channels);
bn_request_scale ==
    /\ pc = "bn_call"
    /\ bn_get_weights(bn.channels)
    /\ bn' = [bn EXCEPT
                !.scratch = IF BnShared(bn.impl) THEN bn.tensors[1]
                            ELSE bn.scratch,
                !.bn_weight = IF BnShared(bn.impl) THEN "scratch" ELSE "first",
                !.events = Append(bn.events, "request_scale")]
    /\ pc' = IF BnShared(bn.impl) THEN "bn_copy_w" ELSE "bn_req2"
    /\ UNCHANGED <<decVars, runRest>>
    /\ UNCHANGED <<head, cv, ds, blk, hw>>

\* local_w[i] = bn_weight[i] (phase_b); memcpy(local_w, ..., channels) (hosts)
bn_copy_scale ==
    /\ pc = "bn_copy_w"
    /\ bn' = [bn EXCEPT !.local_w = BnDeref(bn, bn.bn_weight),
                        !.events = Append(bn.events, "copy_scale")]
    /\ pc' = "bn_req2"
    /\ UNCHANGED <<cursorVars, hvVars, bdVars, hvbVars, decVars, runRest>>
    /\ UNCHANGED <<head, cv, ds, blk, hw>>

\* const int8_t* bn_bias = get_weights(channels);
bn_request_bias ==
    /\ pc = "bn_req2"
    /\ bn_get_weights(bn.channels)
    /\ bn' = [bn EXCEPT
                !.scratch = IF BnShared(bn.impl) THEN bn.tensors[2]
                            ELSE bn.scratch,
                !.bn_bias = IF BnShared(bn.impl) THEN "scratch" ELSE "second",
                !.events = Append(bn.events, "request_bias")]
    /\ pc' = IF bn.impl = "phase_a" THEN "bn_loop" ELSE "bn_copy_b"
    /\ UNCHANGED <<decVars, runRest>>
    /\ UNCHANGED <<head, cv, ds, blk, hw>>

\* local_b[i] = bn_bias[i] (phase_b); memcpy(local_b, ..., channels) (hosts)
bn_copy_bias ==
    /\ pc = "bn_copy_b"
    /\ BnShared(bn.impl)
    /\ bn' = [bn EXCEPT !.local_b = BnDeref(bn, bn.bn_bias),
                        !.events = Append(bn.events, "copy_bias")]
    /\ pc' = "bn_loop"
    /\ UNCHANGED <<cursorVars, hvVars, bdVars, hvbVars, decVars, runRest>>
    /\ UNCHANGED <<head, cv, ds, blk, hw>>

\* phase_full: w_cache[c] = bn_weight[c]; b_cache[c] = bn_bias[c];
bn_cache_params ==
    /\ pc = "bn_copy_b"
    /\ bn.impl = "phase_full"
    /\ bn' = [bn EXCEPT !.local_w = BnDeref(bn, bn.bn_weight),
                        !.local_b = BnDeref(bn, bn.bn_bias),
                        !.events = Append(bn.events, "cache_params")]
    /\ pc' = "bn_loop"
    /\ UNCHANGED <<cursorVars, hvVars, bdVars, hvbVars, decVars, runRest>>
    /\ UNCHANGED <<head, cv, ds, blk, hw>>

\* int8_t w_bn = local_w[c] (w_cache[c] in phase_full, bn_weight[c] in phase_a)
bn_scale_aliased(b, c) == BnDeref(b, b.bn_weight)[c]

bn_scale(b, c) ==
    IF b.impl = "phase_a" THEN BnDeref(b, b.bn_weight)[c] ELSE b.local_w[c]

\* int8_t b_bn = local_b[c] (b_cache[c] in phase_full, bn_bias[c] in phase_a)
bn_bias_of(b, c) ==
    IF b.impl = "phase_a" THEN BnDeref(b, b.bn_bias)[c] ELSE b.local_b[c]

\* lower clamp: 0 with apply_relu (and in every batch_norm_relu), else -128
bn_lo_signed(apply_relu) == -128

bn_lo(apply_relu) == IF apply_relu THEN 0 ELSE -128

\* val = (val * w_bn) >> 6; val += b_bn; the clamp; (int8_t)val
bn_apply(val, w_bn, b_bn, apply_relu) ==
    LET v == Sar(val * w_bn, 6) + b_bn
    IN ToS8(IF v < bn_lo(apply_relu) THEN bn_lo(apply_relu)
            ELSE IF v > 127 THEN 127 ELSE v)

\* one channel of for (int c = 0; c < channels; c++): all h * w elements
bn_channel ==
    /\ pc = "bn_loop"
    /\ bn.c < bn.channels
    /\ LET w_bn == bn_scale(bn, bn.c)
           b_bn == bn_bias_of(bn, bn.c)
           lo == bn.c * bn.h * bn.w
       IN bn' = [bn EXCEPT
                   !.fm = [idx \in DOMAIN bn.fm |->
                              IF idx >= lo /\ idx < lo + bn.h * bn.w
                              THEN bn_apply(bn.fm[idx], w_bn, b_bn,
                                            bn.apply_relu)
                              ELSE bn.fm[idx]],
                   !.applied = Append(bn.applied,
                                      [scale |-> w_bn, bias |-> b_bn]),
                   !.c = bn.c + 1]
    /\ UNCHANGED <<pc, cursorVars, hvVars, bdVars, hvbVars, decVars, runRest>>
    /\ UNCHANGED <<head, cv, ds, blk, hw>>

bn_return ==
    /\ pc = "bn_loop"
    /\ ~(bn.c < bn.channels)
    /\ pc' = "bn_done"
    /\ UNCHANGED <<bn, cursorVars, hvVars, bdVars, hvbVars, decVars, runRest>>
    /\ UNCHANGED <<head, cv, ds, blk, hw>>

\* a call of the implementation on a feature map [channels, h, w]; the next
\* two tensors at the cursor hold scale and bias
BnCall(impl, channels, h, w, apply_relu, mp, sp, bp) ==
    [op |-> "bn", impl |-> impl, channels |-> channels, h |-> h, w |-> w,
     apply_relu |-> apply_relu,
     fm  |-> [k \in 0..(channels * h * w - 1) |-> Pat(mp[1], mp[2], k)],
     fm0 |-> [k \in 0..(channels * h * w - 1) |-> Pat(mp[1], mp[2], k)],
     tensors |-> <<[c \in 0..(channels - 1) |-> Pat(sp[1], sp[2], c)],
                   [c \in 0..(channels - 1) |-> Pat(bp[1], bp[2], c)]>>,
     scratch |-> [c \in 0..(channels - 1) |-> STALE],
     local_w |-> [c \in 0..(channels - 1) |-> STALE],
     local_b |-> [c \in 0..(channels - 1) |-> STALE],
     bn_weight |-> "none", bn_bias |-> "none",
     c |-> 0, events |-> <<>>, applied |-> <<>>]

NormInit ==
    /\ pc = "bn_call"
    /\ \E impl \in BnImpls, channels \in 1..2, h \in 1..2, w \in 1..2,
          apply_relu \in BOOLEAN, mp \in BnMapPats, sp \in BnScalePats,
          bp \in BnBiasPats :
         /\ (impl # "phase_full" => apply_relu)
         /\ bn = BnCall(impl, channels, h, w, apply_relu, mp, sp, bp)
    /\ head = NoData /\ cv = NoData /\ ds = NoData /\ blk = NoData
    /\ hw = NoData
    /\ CursorIdle /\ HvIdle /\ BdIdle /\ HvbIdle /\ DecIdle /\ RunIdle

NormNext ==
    \/ bn_request_scale
    \/ bn_copy_scale
    \/ bn_request_bias
    \/ bn_copy_bias
    \/ bn_cache_params
    \/ bn_channel
    \/ bn_return

SpecNorm == NormInit /\ [][NormNext]_vars

\* floor(x / 64), computed without the shift
FloorDiv64(x) == (x - (x % 64)) \div 64

Clamp(x, lo, hi) == IF x < lo THEN lo ELSE IF x > hi THEN hi ELSE x

\* C14: after normalize every element holds
\* clamp(floor(value * scale / 64) + bias, lo, 127) for its original value and
\* its channel's scale and bias, lo = 0 when applyRelu is set and -128
\* otherwise; every element lies in [0, 127] or [-128, 127] accordingly.
\* (batch_norm_relu of the other programs always rectifies.)
C14_NormalizeClamp ==
    pc = "bn_done" =>
       \A idx \in DOMAIN bn.fm :
          LET c  == idx \div (bn.h * bn.w)
              lo == IF bn.apply_relu THEN 0 ELSE -128
          IN /\ bn.fm[idx] =
                  Clamp(FloorDiv64(bn.fm0[idx] * bn.tensors[1][c])
                           + bn.tensors[2][c], lo, 127)
             /\ bn.fm[idx] >= lo /\ bn.fm[idx] <= 127

\* rectified: -128 * -128 / 64 + 127 = 383 was clamped to 127
C14_Witness ==
    /\ pc = "bn_done" /\ bn.impl = "phase_full" /\ bn.apply_relu
    /\ bn.fm0[0] = -128 /\ bn.tensors[1][0] = -128 /\ bn.tensors[2][0] = 127
    /\ bn.fm[0] = 127

\* signed: 127 * -128 / 64 - 128 = -382 was clamped to -128
C14_WitnessSigned ==
    /\ pc = "bn_done" /\ bn.impl = "phase_full" /\ ~bn.apply_relu
    /\ bn.fm0[0] = 127 /\ bn.tensors[1][0] = -128 /\ bn.tensors[2][0] = -128
    /\ bn.fm[0] = -128

\* position of the first occurrence of event e in log q, 0 when absent
EventAt(q, e) ==
    IF \E j \in 1..Len(q) : q[j] = e
    THEN CHOOSE j \in 1..Len(q) : q[j] = e /\ \A k \in 1..(j - 1) : q[k] # e
    ELSE 0

\* C20: in every normalize implementation the scale applied to a channel is
\* the value of the first requested tensor and the bias the value of the
\* second; where both requests return one scratch buffer that the second
\* request overwrites, the scale vector has been copied to private storage
\* before the second request is issued.
C20_NormAliasing ==
    bn.op = "bn" =>
       /\ \A c \in 1..Len(bn.applied) :
             /\ bn.applied[c].scale = bn.tensors[1][c - 1]
             /\ bn.applied[c].bias = bn.tensors[2][c - 1]
       /\ (pc = "bn_done" => Len(bn.applied) = bn.channels)
       /\ (BnShared(bn.impl) /\ EventAt(bn.events, "request_bias") > 0 =>
             /\ EventAt(bn.events, "copy_scale") > 0
             /\ EventAt(bn.events, "copy_scale")
                   < EventAt(bn.events, "request_bias")
             /\ bn.local_w = bn.tensors[1]
             /\ bn.scratch = bn.tensors[2])

\* phase_b, scale and bias vectors differ, the scratch buffer holds the bias
\* when the channels are processed
C20_Witness ==
    /\ pc = "bn_done" /\ bn.impl = "phase_b" /\ bn.channels = 2
    /\ bn.tensors[1] # bn.tensors[2]
    /\ bn.scratch = bn.tensors[2] /\ bn.bn_weight = "scratch"
    /\ bn.applied[1].scale = bn.tensors[1][0]
    /\ bn.applied[1].scale # bn.tensors[2][0]

(***************************************************************************)
(* option_a_downsample on data                                             *)
(***************************************************************************)
MaxChannels == 4     \* largest out_c drawn in SpecDown

\* <<stride, phase>> of the input patterns drawn
DsInputPats == {<<0, 4>>, <<1, 0>>, <<1, 3>>, <<MaxPat, 1>>}

\* out_h = h / 2; out_w = w / 2; pad_c = (out_c - in_c) / 2
ds_out_h(d) == d.h \div 2
ds_out_w(d) == d.w \div 2
ds_pad_c(d) == (d.out_c - d.in_c) \div 2

\* input[(c * h * w) + (y * 2 * w) + (x * 2)]
ds_source_nostep(d, c, y, x) == d.input[(c * d.h * d.w) + (y * 2 * d.w) + x]

ds_source(d, c, y, x) == d.input[(c * d.h * d.w) + (y * 2 * d.w) + (x * 2)]

\* for(int i=0; i<out_c * out_h * out_w; i++) output[i] = 0;
ds_zero_fill ==
    /\ pc = "ds_call"
    /\ ds' = [ds EXCEPT
                !.output = [i \in DOMAIN ds.output |->
                               IF i < ds.out_c * ds_out_h(ds) * ds_out_w(ds)
                               THEN 0 ELSE ds.output[i]],
                !.c = 0]
    /\ pc' = "ds_loop"
    /\ UNCHANGED <<cursorVars, hvVars, bdVars, hvbVars, decVars, runRest>>
    /\ UNCHANGED <<head, cv, bn, blk, hw>>

\* one input channel of for(int c=0; c<in_c; c++): every (y, x) of the
\* output plane c + pad_c
ds_channel ==
    /\ pc = "ds_loop"
    /\ ds.c < ds.in_c
    /\ LET out_h == ds_out_h(ds)
           out_w == ds_out_w(ds)
           out_c_idx == ds.c + ds_pad_c(ds)
           base == out_c_idx * out_h * out_w
       IN ds' = [ds EXCEPT
                   !.output = [i \in DOMAIN ds.output |->
                                  IF i >= base /\ i < base + out_h * out_w
                                  THEN ds_source(ds, ds.c,
                                                 (i - base) \div out_w,
                                                 (i - base) % out_w)
                                  ELSE ds.output[i]],
                   !.c = ds.c + 1]
    /\ UNCHANGED <<pc, cursorVars, hvVars, bdVars, hvbVars, decVars, runRest>>
    /\ UNCHANGED <<head, cv, bn, blk, hw>>

ds_return ==
    /\ pc = "ds_loop"
    /\ ~(ds.c < ds.in_c)
    /\ pc' = "ds_done"
    /\ UNCHANGED <<ds, cursorVars, hvVars, bdVars, hvbVars, decVars, runRest>>
    /\ UNCHANGED <<head, cv, bn, blk, hw>>

\* a call option_a_downsample(input, output, in_c, out_c, h, w)
DsCall(in_c, out_c, h, w, ip) ==
    [op |-> "downsample", in_c |-> in_c, out_c |-> out_c, h |-> h, w |-> w,
     input  |-> [k \in 0..(in_c * h * w - 1) |-> Pat(ip[1], ip[2], k)],
     input0 |-> [k \in 0..(in_c * h * w - 1) |-> Pat(ip[1], ip[2], k)],
     output |-> [k \in 0..(out_c * (h \div 2) * (w \div 2)) |-> STALE],
     c |-> 0]

DownInit ==
    /\ pc = "ds_call"
    /\ \E in_c \in 1..2, out_c \in 1..MaxChannels, h \in 1..(MaxExtent + 1),
          w \in 1..(MaxExtent + 1), ip \in DsInputPats :
         /\ in_c <= out_c
         /\ ds = DsCall(in_c, out_c, h, w, ip)
    /\ head = NoData /\ cv = NoData /\ bn = NoData /\ blk = NoData
    /\ hw = NoData
    /\ CursorIdle /\ HvIdle /\ BdIdle /\ HvbIdle /\ DecIdle /\ RunIdle

DownNext == ds_zero_fill \/ ds_channel \/ ds_return

SpecDown == DownInit /\ [][DownNext]_vars

\* C15: after option_a_downsample of [in_c, h, w] into [out_c, h/2, w/2],
\* output channel c + (out_c - in_c)/2 at (y, x) equals input channel c at
\* (2y, 2x) for every c < in_c and every output position, every output
\* element of any other channel is 0, and the input is unchanged.
C15_DownsampleIdentity ==
    pc = "ds_done" =>
       LET oh == ds.h \div 2
           ow == ds.w \div 2
           pad == (ds.out_c - ds.in_c) \div 2
       IN /\ \A c \in 0..(ds.in_c - 1), y \in 0..(oh - 1), x \in 0..(ow - 1) :
                ds.output[(c + pad) * oh * ow + y * ow + x]
                   = ds.input0[c * ds.h * ds.w + (2 * y) * ds.w + 2 * x]
          /\ \A k \in 0..(ds.out_c - 1), y \in 0..(oh - 1), x \in 0..(ow - 1) :
                (k < pad \/ k >= pad + ds.in_c) =>
                    ds.output[k * oh * ow + y * ow + x] = 0
          /\ ds.input = ds.input0
          /\ ds.output[ds.out_c * oh * ow] = STALE

\* 2 channels of 4x4 into 4 channels of 2x2: planes 1 and 2 hold the copies,
\* planes 0 and 3 are zero
C15_Witness ==
    /\ pc = "ds_done"
    /\ ds.in_c = 2 /\ ds.out_c = 4 /\ ds.h = 4 /\ ds.w = 4
    /\ ds.output[4 + 3] = ds.input0[10] /\ ds.input0[10] # ds.input0[9]
    /\ ds.input0[10] # 0
    /\ ds.output[0] = 0 /\ ds.output[15] = 0

(***************************************************************************)
(* basic_block on data: the three buffers through the seven steps          *)
(***************************************************************************)
MaxBlkDim == 2     \* largest h, w of an identity block drawn in SpecBlock

\* the whole call conv2d_3x3 of the full-network kernel: the output buffer
\* after the oc, y, x loops
conv2d_3x3_result(c) ==
    [idx \in DOMAIN c.output |->
        IF idx \in ConvExtent(c)
        THEN LET plane == conv_out_h(c) * conv_out_w(c)
                 oc == idx \div plane
                 y  == (idx % plane) \div conv_out_w(c)
                 x  == idx % conv_out_w(c)
             IN conv_rescale(conv_acc(c, conv_weights_cached(c, oc),
                                      y * c.stride - c.padding,
                                      x * c.stride - c.padding,
                                      c.in_c * 9, 0))
        ELSE c.output[idx]]

\* the arguments of a conv2d_3x3 call, weights being the view get_weights
\* returned
ConvArgs(input, output, in_c, out_c, h, w, stride, padding, blob, weights) ==
    [in_c |-> in_c, out_c |-> out_c, h |-> h, w |-> w, stride |-> stride,
     padding |-> padding, input |-> input, output |-> output, blob |-> blob,
     weights |-> weights]

\* the whole call batch_norm(feature_map, channels, h, w, apply_relu) with
\* bn_weight and bn_bias the views get_weights returned
batch_norm_result(fm, channels, h, w, apply_relu, blob, bn_weight, bn_bias) ==
    [idx \in DOMAIN fm |->
        IF idx < channels * h * w
        THEN bn_apply(fm[idx], blob[bn_weight + idx \div (h * w)],
                      blob[bn_bias + idx \div (h * w)], apply_relu)
        ELSE fm[idx]]

\* the whole call option_a_downsample(input, output, in_c, out_c, h, w)
option_a_downsample_result(d) ==
    [i \in DOMAIN d.output |->
        IF i < d.out_c * ds_out_h(d) * ds_out_w(d)
        THEN LET plane == ds_out_h(d) * ds_out_w(d)
                 c == (i \div plane) - ds_pad_c(d)
             IN IF c >= 0 /\ c < d.in_c
                THEN ds_source(d, c, (i % plane) \div ds_out_w(d),
                               i % ds_out_w(d))
                ELSE 0
        ELSE d.output[i]]

\* add_relu: val = dst[i] + src[i]; clamp to [0, 127]
add_relu_noclamp(dst, src) == ToS8(dst + src)

add_relu_value(dst, src) ==
    LET val == dst + src
    IN ToS8(IF val < 0 THEN 0 ELSE IF val > 127 THEN 127 ELSE val)

\* print_hash: sum += (uint32_t)(int32_t)buffer[i].  The signed sum; the
\* golden values are below 2^31, so a negative sum never equals one.
RECURSIVE blk_checksum(_, _)
blk_checksum(buf, size) ==
    IF size = 0 THEN 0 ELSE buf[size - 1] + blk_checksum(buf, size - 1)

\* the six requests of a block, in order
BlkRequests(in_c, out_c) ==
    conv2d_3x3_requests(in_c, out_c) \o batch_norm_requests(out_c)
       \o conv2d_3x3_requests(out_c, out_c) \o batch_norm_requests(out_c)

\* the view the j-th request of rs returns when the cursor starts at 0
ViewAt(rs, j) == Consume(0, SubSeq(rs, 1, j - 1))

\* a blob whose j-th tensor follows pattern ps[j]; pad bytes are 0
BlkBlob(rs, ps) ==
    LET views == [j \in 1..Len(rs) |-> ViewAt(rs, j)]
    IN [k \in 0..(Consume(0, rs) - 1) |->
          IF \E j \in 1..Len(rs) : k >= views[j] /\ k < views[j] + rs[j]
          THEN LET j == CHOOSE j \in 1..Len(rs) :
                           k >= views[j] /\ k < views[j] + rs[j]
               IN Pat(ps[j][1], ps[j][2], k - views[j])
          ELSE 0]

\* patterns drawn for conv1, bn1 scale, bn1 bias, conv2, bn2 scale, bn2 bias
BlkWeightPats ==
    {<<0, 4>>, <<1, 0>>} \X {<<0, 4>>, <<0, 3>>}
       \X {<<0, 2>>, <<0, 3>>} \X {<<0, 2>>, <<1, 0>>}
       \X {<<0, 2>>, <<0, 4>>} \X {<<0, 2>>, <<0, 1>>}

BlkInputPats == {<<0, 0>>, <<0, 4>>, <<1, 0>>, <<MaxPat, 1>>}

\* the shapes the firmware runs: identity blocks, and channel-doubling
\* blocks of stride 2
BlkShapes ==
    {[in_c |-> c, out_c |-> c, h |-> h, w |-> w, stride |-> 1] :
        c \in 1..2, h \in 1..MaxBlkDim, w \in 1..MaxBlkDim}
    \cup {[in_c |-> 1, out_c |-> 2, h |-> 2, w |-> w, stride |-> 2] :
             w \in {2, 4}}

\* basic_block(name, in_buf, out_buf, in_c, out_c, h, w, stride) on entry
BlkCall(s, ip, ps) ==
    LET out_h == s.h \div s.stride
        out_w == s.w \div s.stride
        out_size == s.out_c * out_h * out_w
        cap == IF s.in_c * s.h * s.w > out_size THEN s.in_c * s.h * s.w
               ELSE out_size
        x == [k \in 0..(cap - 1) |->
                 IF k < s.in_c * s.h * s.w THEN Pat(ip[1], ip[2], k) ELSE STALE]
        rs == BlkRequests(s.in_c, s.out_c)
    IN [op |-> "block", in_c |-> s.in_c, out_c |-> s.out_c, h |-> s.h,
        w |-> s.w, stride |-> s.stride,
        out_h |-> out_h, out_w |-> out_w, out_size |-> out_size,
        in_buf |-> x, x0 |-> x,
        out_buf |-> [k \in 0..(cap - 1) |-> STALE],
        buffer_temp |-> [k \in 0..(cap - 1) |-> STALE],
        blob |-> BlkBlob(rs, ps), rs |-> rs]

\* conv2d_3x3(in_buf, out_buf, in_c, out_c, h, w, stride, 1)
blk_conv1 ==
    /\ pc = "blk_conv1"
    /\ LET rs == conv2d_3x3_requests(blk.in_c, blk.out_c)
       IN /\ w_offset' = Consume(w_offset, rs)
          /\ w_view' = w_offset
          /\ blk' = [blk EXCEPT !.out_buf =
                       conv2d_3x3_result(
                          ConvArgs(blk.in_buf, blk.out_buf, blk.in_c,
                                   blk.out_c, blk.h, blk.w, blk.stride, 1,
                                   blk.blob, w_offset))]
    /\ pc' = "blk_bn1"
    /\ UNCHANGED <<w_sum, w_calls, hvVars, bdVars, hvbVars, decVars, runRest>>
    /\ UNCHANGED <<head, cv, bn, ds, hw>>

\* batch_norm(out_buf, out_c, out_h, out_w, 1)
blk_bn1 ==
    /\ pc = "blk_bn1"
    /\ LET rs == batch_norm_requests(blk.out_c)
       IN /\ w_offset' = Consume(w_offset, rs)
          /\ w_view' = LastView(w_offset, rs)
          /\ blk' = [blk EXCEPT !.out_buf =
                       batch_norm_result(blk.out_buf, blk.out_c, blk.out_h,
                                         blk.out_w, TRUE, blk.blob, w_offset,
                                         LastView(w_offset, rs))]
    /\ pc' = "blk_shortcut"
    /\ UNCHANGED <<w_sum, w_calls, hvVars, bdVars, hvbVars, decVars, runRest>>
    /\ UNCHANGED <<head, cv, bn, ds, hw>>

\* the buffer the shortcut is taken from: in_buf, which still holds the
\* block's input when the shortcut is captured
blk_shortcut_input_aliased(b) == b.out_buf

blk_shortcut_input(b) == b.in_buf

\* if (stride != 1 || in_c != out_c) option_a_downsample(in_buf, buffer_temp,
\* ...); else buffer_temp[i] = in_buf[i] for i < out_size
blk_shortcut ==
    /\ pc = "blk_shortcut"
    /\ blk' = [blk EXCEPT !.buffer_temp =
                 IF blk.stride # 1 \/ blk.in_c # blk.out_c
                 THEN option_a_downsample_result(
                         [in_c |-> blk.in_c, out_c |-> blk.out_c,
                          h |-> blk.h, w |-> blk.w,
                          input |-> blk_shortcut_input(blk),
                          output |-> blk.buffer_temp])
                 ELSE [i \in DOMAIN blk.buffer_temp |->
                          IF i < blk.out_size THEN blk_shortcut_input(blk)[i]
                          ELSE blk.buffer_temp[i]]]
    /\ pc' = "blk_conv2"
    /\ UNCHANGED <<cursorVars, hvVars, bdVars, hvbVars, decVars, runRest>>
    /\ UNCHANGED <<head, cv, bn, ds, hw>>

\* conv2d_3x3(out_buf, in_buf, out_c, out_c, out_h, out_w, 1, 1)
blk_conv2 ==
    /\ pc = "blk_conv2"
    /\ LET rs == conv2d_3x3_requests(blk.out_c, blk.out_c)
       IN /\ w_offset' = Consume(w_offset, rs)
          /\ w_view' = w_offset
          /\ blk' = [blk EXCEPT !.in_buf =
                       conv2d_3x3_result(
                          ConvArgs(blk.out_buf, blk.in_buf, blk.out_c,
                                   blk.out_c, blk.out_h, blk.out_w, 1, 1,
                                   blk.blob, w_offset))]
    /\ pc' = "blk_bn2"
    /\ UNCHANGED <<w_sum, w_calls, hvVars, bdVars, hvbVars, decVars, runRest>>
    /\ UNCHANGED <<head, cv, bn, ds, hw>>

\* batch_norm(in_buf, out_c, out_h, out_w, 0)
blk_bn2 ==
    /\ pc = "blk_bn2"
    /\ LET rs == batch_norm_requests(blk.out_c)
       IN /\ w_offset' = Consume(w_offset, rs)
          /\ w_view' = LastView(w_offset, rs)
          /\ blk' = [blk EXCEPT !.in_buf =
                       batch_norm_result(blk.in_buf, blk.out_c, blk.out_h,
                                         blk.out_w, FALSE, blk.blob, w_offset,
                                         LastView(w_offset, rs))]
    /\ pc' = "blk_add"
    /\ UNCHANGED <<w_sum, w_calls, hvVars, bdVars, hvbVars, decVars, runRest>>
    /\ UNCHANGED <<head, cv, bn, ds, hw>>

\* out_buf[i] = in_buf[i] for i < out_size; add_relu(out_buf, buffer_temp,
\* out_size)
blk_add ==
    /\ pc = "blk_add"
    /\ blk' = [blk EXCEPT !.out_buf =
                 [i \in DOMAIN blk.out_buf |->
                     IF i < blk.out_size
                     THEN add_relu_value(blk.in_buf[i], blk.buffer_temp[i])
                     ELSE blk.out_buf[i]]]
    /\ pc' = "blk_hash"
    /\ UNCHANGED <<cursorVars, hvVars, bdVars, hvbVars, decVars, runRest>>
    /\ UNCHANGED <<head, cv, bn, ds, hw>>

\* print_hash(name, out_buf, out_size), after which basic_block returns
blk_print_hash ==
    /\ pc = "blk_hash"
    /\ hash_idx < 56
    /\ LET sum == blk_checksum(blk.out_buf, blk.out_size)
       IN /\ hash_sum' = sum
          /\ hash_cmp' = hash_idx
          /\ hash_calls' = hash_calls + 1
          /\ IF sum # EXPECTED_HASHES[hash_idx + 1]
             THEN /\ printed' = printed \cup {"Hash"} \cup MismatchReport
                  /\ hash_idx' = hash_idx
                  /\ pc' = "halt"
             ELSE /\ printed' = printed \cup {"Hash"}
                  /\ hash_idx' = hash_idx + 1
                  /\ pc' = "blk_done"
    /\ UNCHANGED <<hash_name, magic, layers, st, bb, reqs, prev_bb, stage_no,
                   ret_buf>>
    /\ UNCHANGED <<cursorVars, hvVars, bdVars, hvbVars, decVars, dataVars>>

BlockInit ==
    /\ pc = "blk_conv1"
    /\ \E s \in BlkShapes, ip \in BlkInputPats, ps \in BlkWeightPats :
         blk = BlkCall(s, ip, ps)
    /\ head = NoData /\ cv = NoData /\ bn = NoData /\ ds = NoData
    /\ hw = NoData
    /\ CursorIdle /\ HvIdle /\ BdIdle /\ HvbIdle /\ DecIdle /\ RunIdle

BlockNext ==
    \/ blk_conv1 \/ blk_bn1 \/ blk_shortcut \/ blk_conv2 \/ blk_bn2
    \/ blk_add \/ blk_print_hash

SpecBlock == BlockInit /\ [][BlockNext]_vars

\* tensor j of the block's blob is all zero
BlkTensorZero(b, j) ==
    \A k \in ViewAt(b.rs, j)..(ViewAt(b.rs, j) + b.rs[j] - 1) : b.blob[k] = 0

\* add_relu has run
BlkAdded == blk.op = "block" /\ pc \in {"blk_hash", "blk_done", "halt"}

\* C16: a residual block with identity shortcut (stride 1, in_c = out_c)
\* whose second-stage weights (the second convolution's weights and the
\* second normalization's scale and bias vectors) are zero produces
\* clamp(shortcut, 0, 127) elementwise, shortcut being the block's original
\* input, for every input and every first-stage weights.
C16_ZeroSecondStage ==
    (/\ BlkAdded
     /\ blk.stride = 1 /\ blk.in_c = blk.out_c
     /\ BlkTensorZero(blk, 4) /\ BlkTensorZero(blk, 5)
     /\ BlkTensorZero(blk, 6)) =>
        \A i \in 0..(blk.out_size - 1) :
            blk.out_buf[i] = Clamp(blk.x0[i], 0, 127)

\* a 2-channel 2x2 identity block with zero second stage, nonzero first
\* stage and an input of both signs
C16_Witness ==
    /\ BlkAdded
    /\ blk.stride = 1 /\ blk.in_c = 2 /\ blk.out_c = 2
    /\ blk.h = 2 /\ blk.w = 2
    /\ BlkTensorZero(blk, 4) /\ BlkTensorZero(blk, 5) /\ BlkTensorZero(blk, 6)
    /\ ~BlkTensorZero(blk, 1) /\ ~BlkTensorZero(blk, 2)
    /\ blk.x0[0] = -128 /\ blk.out_buf[0] = 0
    /\ blk.x0[4] = 127 /\ blk.out_buf[4] = 127

(***************************************************************************)
(* decode_block of the phase B firmware: the decoder's register interface  *)
(***************************************************************************)
\* one access to a register of the decoder; ready tells whether the device
\* had completed the decode when the access was made
HwAccess(kind, reg, i, value, device) ==
    [kind |-> kind, reg |-> reg, i |-> i, value |-> value,
     ready |-> device = "ready"]

\* packed_words[i]: bytes block_data[2 + 4i .. 5 + 4i], little-endian
packed_word(b, i) == <<b[3 + 4 * i], b[4 + 4 * i], b[5 + 4 * i], b[6 + 4 * i]>>

\* BD_META = ((uint32_t)block_data[0] << 8) | block_data[1];
decode_block_meta ==
    /\ pc = "hw_decode"
    /\ hw.step = 0
    /\ hw' = [hw EXCEPT
                !.accesses = Append(hw.accesses,
                                    HwAccess("write", "BD_META", 0,
                                             BlockMeta(hw.block), hw.device)),
                !.step = 1]
    /\ UNCHANGED <<pc, cursorVars, hvVars, bdVars, hvbVars, decVars, runRest>>
    /\ UNCHANGED <<head, cv, bn, ds, blk>>

\* BD_PACKED(i) = packed_words[i]; the decode starts with the last word
decode_block_packed ==
    /\ pc = "hw_decode"
    /\ hw.step \in 1..4
    /\ hw' = [hw EXCEPT
                !.accesses = Append(hw.accesses,
                                    HwAccess("write", "BD_PACKED", hw.step - 1,
                                             packed_word(hw.block, hw.step - 1),
                                             hw.device)),
                !.device = IF hw.step = 4 THEN "busy" ELSE hw.device,
                !.step = hw.step + 1]
    /\ UNCHANGED <<pc, cursorVars, hvVars, bdVars, hvbVars, decVars, runRest>>
    /\ UNCHANGED <<head, cv, bn, ds, blk>>

\* out_words[i] = BD_DECODED(i); read right after the writes, whatever the
\* device's state
decode_block_decoded ==
    /\ pc = "hw_decode"
    /\ hw.step \in 5..12
    /\ hw' = [hw EXCEPT
                !.accesses = Append(hw.accesses,
                                    HwAccess("read", "BD_DECODED", hw.step - 5,
                                             <<>>, hw.device)),
                !.step = hw.step + 1]
    /\ UNCHANGED <<pc, cursorVars, hvVars, bdVars, hvbVars, decVars, runRest>>
    /\ UNCHANGED <<head, cv, bn, ds, blk>>

decode_block_return ==
    /\ pc = "hw_decode"
    /\ hw.step = 13
    /\ pc' = "hw_done"
    /\ UNCHANGED <<hw, cursorVars, hvVars, bdVars, hvbVars, decVars, runRest>>
    /\ UNCHANGED <<head, cv, bn, ds, blk>>

\* the decoder completes the decode it was started on
hw_device_complete ==
    /\ pc = "hw_decode"
    /\ hw.device = "busy"
    /\ hw' = [hw EXCEPT !.device = "ready"]
    /\ UNCHANGED <<pc, cursorVars, hvVars, bdVars, hvbVars, decVars, runRest>>
    /\ UNCHANGED <<head, cv, bn, ds, blk>>

HwInit ==
    /\ pc = "hw_decode"
    /\ \E dialect_id \in {0, BD_NUM_DIALECTS - 1}, shared_exp \in {0, 1},
          seed \in {0, MaxSeed}, device \in {"idle", "ready"} :
         hw = [op |-> "hw",
               block |-> MakeBlock(dialect_id, shared_exp, 0, seed),
               step |-> 0, device |-> device, accesses |-> <<>>]
    /\ head = NoData /\ cv = NoData /\ bn = NoData /\ ds = NoData
    /\ blk = NoData
    /\ CursorIdle /\ HvIdle /\ BdIdle /\ HvbIdle /\ DecIdle /\ RunIdle

HwNext ==
    \/ decode_block_meta
    \/ decode_block_packed
    \/ decode_block_decoded
    \/ decode_block_return
    \/ hw_device_complete

SpecHw == HwInit /\ [][HwNext]_vars

\* C17: when a block is decoded through the register interface, the metadata
\* register and the four packed-data registers are written first, then the
\* status register is polled until it signals completion, and a decoded-data
\* register is read only after a ready status has been observed.
C17_HwDecodeOrdering ==
    hw.op = "hw" =>
       \A j \in 1..Len(hw.accesses) :
          hw.accesses[j].reg = "BD_DECODED" =>
             /\ j > 5
             /\ \A k \in 1..5 : hw.accesses[k].kind = "write"
             /\ \E k \in 6..(j - 1) :
                   /\ hw.accesses[k].reg = "BD_STATUS"
                   /\ hw.accesses[k].kind = "read"
                   /\ hw.accesses[k].ready

\* the values a block computes from its original input x0, stage by stage,
\* each call applied to the result of the one before
BlkStale(b) == [k \in DOMAIN b.x0 |-> STALE]

BlkConv1(b) ==
    conv2d_3x3_result(ConvArgs(b.x0, BlkStale(b), b.in_c, b.out_c, b.h, b.w,
                               b.stride, 1, b.blob, ViewAt(b.rs, 1)))

BlkNorm1(b) ==
    batch_norm_result(BlkConv1(b), b.out_c, b.out_h, b.out_w, TRUE, b.blob,
                      ViewAt(b.rs, 2), ViewAt(b.rs, 3))

BlkConv2(b) ==
    conv2d_3x3_result(ConvArgs(BlkNorm1(b), b.x0, b.out_c, b.out_c, b.out_h,
                               b.out_w, 1, 1, b.blob, ViewAt(b.rs, 4)))

BlkNorm2(b) ==
    batch_norm_result(BlkConv2(b), b.out_c, b.out_h, b.out_w, FALSE, b.blob,
                      ViewAt(b.rs, 5), ViewAt(b.rs, 6))

\* element i of the shortcut of x0: the identity copy, or the option-A
\* downsample (every second row and column, channels zero-padded)
BlkShortcutOf(b, i) ==
    IF b.stride = 1 /\ b.in_c = b.out_c THEN b.x0[i]
    ELSE LET oh == b.h \div 2
             ow == b.w \div 2
             c  == (i \div (oh * ow)) - ((b.out_c - b.in_c) \div 2)
             y  == (i % (oh * ow)) \div ow
             x  == i % ow
         IN IF c >= 0 /\ c < b.in_c
            THEN b.x0[c * b.h * b.w + 2 * y * b.w + 2 * x]
            ELSE 0

\* C21: with pairwise distinct input, output and shortcut buffers, the
\* shortcut (downsample, or identity copy of the first out_c * out_h * out_w
\* input elements) is captured from the block's original input before the
\* second convolution overwrites the input buffer; once add_relu has run the
\* output buffer holds clamp(normalize(conv2(normalize_relu(conv1(x)))) +
\* shortcut(x), 0, 127) elementwise, every element in [0, 127], and the input
\* buffer holds the pre-add result of the second stage, not the input.
C21_BlockBufferSafety ==
    /\ (blk.op = "block" /\ pc \in {"blk_conv2", "blk_bn2", "blk_add"} =>
          \A i \in 0..(blk.out_size - 1) :
              blk.buffer_temp[i] = BlkShortcutOf(blk, i))
    /\ (pc = "blk_conv2" /\ blk.op = "block" => blk.in_buf = blk.x0)
    /\ (BlkAdded =>
          LET second == BlkNorm2(blk)
          IN \A i \in 0..(blk.out_size - 1) :
                /\ blk.buffer_temp[i] = BlkShortcutOf(blk, i)
                /\ blk.in_buf[i] = second[i]
                /\ blk.out_buf[i]
                      = Clamp(second[i] + BlkShortcutOf(blk, i), 0, 127)
                /\ blk.out_buf[i] >= 0 /\ blk.out_buf[i] <= 127)

\* a channel-doubling block of stride 2 whose input buffer was overwritten
\* and whose output carries both the second stage and the shortcut
C21_Witness ==
    /\ BlkAdded
    /\ blk.stride = 2 /\ blk.in_c = 1 /\ blk.out_c = 2 /\ blk.w = 4
    /\ \E i \in 0..(blk.out_size - 1) : blk.in_buf[i] # blk.x0[i]
    /\ \E i \in 0..(blk.out_size - 1) :
          /\ blk.buffer_temp[i] = 127 /\ blk.in_buf[i] < 0
          /\ blk.out_buf[i] = 127 + blk.in_buf[i]

\* an identity block whose second stage is not zero and whose input buffer
\* no longer holds the input
C21_WitnessIdentity ==
    /\ BlkAdded
    /\ blk.stride = 1 /\ blk.in_c = 2 /\ blk.h = 2 /\ blk.w = 2
    /\ \E i \in 0..(blk.out_size - 1) : blk.in_buf[i] # blk.x0[i]
    /\ \E i \in 0..(blk.out_size - 1) :
          blk.in_buf[i] # 0 /\ blk.out_buf[i] # Clamp(blk.x0[i], 0, 127)


\* ---- the golden table over the full run --------------------------------

\* the positions at which main and basic_block call print_hash
HashSites == {"main_hash_conv1", "bb_hash", "main_hash_pool"}

\* the layer verified by the k-th call of print_hash (k from 0) in main's
\* order: conv1, then RESNET_N blocks of each of layer1..layer3, then pool
GoldenName(k) ==
    IF k = 0 THEN [prefix |-> "conv1", idx |-> -1]
    ELSE IF k <= 3 * RESNET_N
    THEN [prefix |-> <<"layer1", "layer2", "layer3">>[((k - 1) \div RESNET_N) + 1],
          idx    |-> (k - 1) % RESNET_N]
    ELSE [prefix |-> "pool", idx |-> -1]

\* C22: over the full run EXPECTED_HASHES (56 entries) is read only at
\* indices 0..55: every call of print_hash starts with hash_idx in 0..55, the
\* k-th call compares against entry k and verifies the k-th layer of conv1,
\* layer1_0..17, layer2_0..17, layer3_0..17, pool, and a run in which every
\* checksum matched has made exactly 56 lookups and left hash_idx at 56
C22_GoldenTableBounds ==
    /\ hash_idx \in 0..56
    /\ (pc \in HashSites => hash_idx \in 0..55 /\ hash_idx = hash_calls)
    /\ (hash_calls > 0 =>
          /\ hash_cmp \in 0..55
          /\ hash_cmp = hash_calls - 1
          /\ hash_name = GoldenName(hash_cmp))
    /\ (pc \in {"main_fc", "done", "halt_fail"} =>
          /\ hash_calls = 56 /\ hash_idx = 56 /\ hash_cmp = 55
          /\ hash_sum = EXPECTED_HASHES[56])

C22_Witness ==
    /\ pc = "done" /\ hash_idx = 56 /\ hash_calls = 56
    /\ hash_name = [prefix |-> "pool", idx |-> -1]

C22_WitnessLastBlock ==
    /\ pc = "rs_swap" /\ hash_cmp = 54
    /\ hash_name = [prefix |-> "layer3", idx |-> 17]


\* ---- the fixed buffers over the full run -------------------------------

\* the number of elements of each statically sized array
Capacity(buf) ==
    CASE buf \in {"buffer_A", "buffer_B", "buffer_temp"} -> 16 * 32 * 32
      [] buf = "channel_weight_cache"                     -> 64 * 3 * 3
      [] buf \in {"w_cache", "b_cache"}                   -> 64

\* a loop that writes buf[first], ..., buf[last]; it writes nothing when
\* last < first
WriteRange(buf, first, last) == [buf |-> buf, first |-> first, last |-> last]

\* the writes of conv2d_3x3(input, output, in_c, out_c, h, w, stride, 1):
\* channel_weight_cache[i] for i < in_c * 9, and
\* output[oc * out_h * out_w + y * out_w + x] for oc < out_c, y < out_h,
\* x < out_w
conv2d_3x3_writes(output, in_c, out_c, h, w, stride) ==
    LET out_h == h \div stride
        out_w == w \div stride
    IN IF out_c <= 0 THEN {}
       ELSE {WriteRange("channel_weight_cache", 0, in_c * 9 - 1),
             WriteRange(output, 0,
                        (out_c - 1) * out_h * out_w
                          + (out_h - 1) * out_w + (out_w - 1))}

\* the writes of batch_norm(feature_map, channels, h, w, apply_relu):
\* w_cache[c], b_cache[c] for c < channels and feature_map[c * h * w + i]
\* for i < h * w
batch_norm_writes(feature_map, channels, h, w) ==
    {WriteRange("w_cache", 0, channels - 1),
     WriteRange("b_cache", 0, channels - 1),
     WriteRange(feature_map, 0, (channels - 1) * h * w + h * w - 1)}

\* the writes of option_a_downsample(input, output, in_c, out_c, h, w): the
\* zero fill of out_c * out_h * out_w elements, then the copies at
\* (c + pad_c) * out_h * out_w + y * out_w + x for c < in_c
option_a_downsample_writes(output, in_c, out_c, h, w) ==
    LET out_h == h \div 2
        out_w == w \div 2
        pad_c == (out_c - in_c) \div 2
    IN {WriteRange(output, 0, out_c * out_h * out_w - 1),
        WriteRange(output, pad_c * out_h * out_w,
                   (in_c - 1 + pad_c) * out_h * out_w
                     + (out_h - 1) * out_w + (out_w - 1))}

\* the writes of the call the full run makes next
FullWrites ==
    CASE pc = "main_conv1" -> conv2d_3x3_writes("buffer_A", 3, 16, 32, 32, 1)
      [] pc = "main_bn1"   -> batch_norm_writes("buffer_A", 16, 32, 32)
      [] pc = "bb_conv1"   ->
           conv2d_3x3_writes(bb.out_buf, bb.in_c, bb.out_c, bb.h, bb.w,
                             bb.stride)
      [] pc = "bb_bn1"     ->
           batch_norm_writes(bb.out_buf, bb.out_c, bb.out_h, bb.out_w)
      [] pc = "bb_shortcut" ->
           IF bb.stride # 1 \/ bb.in_c # bb.out_c
           THEN option_a_downsample_writes("buffer_temp", bb.in_c, bb.out_c,
                                           bb.h, bb.w)
           ELSE {WriteRange("buffer_temp", 0, bb.out_size - 1)}
      [] pc = "bb_conv2"   ->
           conv2d_3x3_writes(bb.in_buf, bb.out_c, bb.out_c, bb.out_h,
                             bb.out_w, 1)
      [] pc = "bb_bn2"     ->
           batch_norm_writes(bb.in_buf, bb.out_c, bb.out_h, bb.out_w)
      [] pc = "bb_add"     -> {WriteRange(bb.out_buf, 0, bb.out_size - 1)}
      [] pc = "main_pool"  -> {WriteRange(OtherBuf(ret_buf), 0, 64 - 1)}
      [] OTHER             -> {}

\* C23: every write of the full run (conv1 3->16 at 32x32, the three stages
\* of 18 blocks, the pool) to buffer_A, buffer_B or buffer_temp is at an
\* index in 0..16383, every write to channel_weight_cache is at an index in
\* 0..575 and every write to the w_cache and b_cache of batch_norm is at an
\* index in 0..63
C23_FixedBufferBounds ==
    \A wr \in FullWrites :
        wr.first <= wr.last =>
            /\ wr.first >= 0
            /\ wr.last < Capacity(wr.buf)
            /\ wr.buf \in {"buffer_A", "buffer_B", "buffer_temp"}
                  => wr.last < 16384
            /\ wr.buf = "channel_weight_cache" => wr.last < 576
            /\ wr.buf \in {"w_cache", "b_cache"} => wr.last < 64

\* the second convolution of a block of the last stage fills the whole
\* weight cache
C23_Witness ==
    /\ pc = "bb_conv2" /\ bb.out_c = 64
    /\ WriteRange("channel_weight_cache", 0, 575) \in FullWrites
    /\ WriteRange(bb.in_buf, 0, 4095) \in FullWrites

\* a block of the first stage fills a whole feature-map buffer
C23_WitnessFullBuffer ==
    /\ pc = "bb_shortcut" /\ bb.in_c = 16 /\ bb.stride = 1
    /\ FullWrites = {WriteRange("buffer_temp", 0, 16383)}

\* the first block of the last stage: the shortcut copies channels 16..47 of
\* the 64 zero-filled ones
C23_WitnessDownsample ==
    /\ pc = "bb_shortcut" /\ bb.in_c = 32 /\ bb.out_c = 64
    /\ WriteRange("buffer_temp", 0, 4095) \in FullWrites
    /\ WriteRange("buffer_temp", 1024, 3071) \in FullWrites


\* ---- the two convolution kernels ---------------------------------------

\* the call as it was made: the output buffer not yet written
ConvFresh(c) == [c EXCEPT !.output = [k \in DOMAIN c.output |-> STALE]]

\* h and w are multiples of stride
ConvDivisible(c) == c.h % c.stride = 0 /\ c.w % c.stride = 0

\* C24: when h and w are multiples of stride, the first-layer kernel (loops
\* over input coordinates in steps of stride, weights read in place) and the
\* full-network kernel (loops over output coordinates, weights read through
\* channel_weight_cache) leave the same output buffer for the same input,
\* weights, channel counts, padding and stride: a returned call of either
\* kernel holds the whole-call result of the full-network kernel, having
\* made one write per element of [out_c, h / stride, w / stride].
C24_KernelsEquivalent ==
    (pc = "conv_done" /\ ConvDivisible(cv)) =>
        /\ cv.output = conv2d_3x3_result(ConvFresh(cv))
        /\ Len(cv.writes) = cv.out_c * conv_out_h(cv) * conv_out_w(cv)
        /\ \A j \in 1..Len(cv.writes) :
              cv.writes[j].val = conv2d_3x3_result(ConvFresh(cv))[cv.writes[j].idx]

\* a returned first-layer call with two channels in and out, stride 2 and
\* padding 1 on a 4x4 map: eight output elements, not all alike
C24_Witness ==
    /\ pc = "conv_done" /\ cv.kernel = "first" /\ ConvDivisible(cv)
    /\ cv.stride = 2 /\ cv.padding = 1 /\ cv.in_c = 2 /\ cv.out_c = 2
    /\ cv.h = 4 /\ cv.w = 4 /\ Len(cv.writes) = 8
    /\ cv.output[0] # cv.output[1] /\ cv.output[1] # cv.output[3]
    /\ \A k \in 0..7 : cv.output[k] # STALE

\* the same call made to the full-network kernel
C24_WitnessFull ==
    /\ pc = "conv_done" /\ cv.kernel = "full" /\ ConvDivisible(cv)
    /\ cv.stride = 2 /\ cv.padding = 1 /\ cv.in_c = 2 /\ cv.out_c = 2
    /\ cv.h = 4 /\ cv.w = 4 /\ Len(cv.writes) = 8
    /\ cv.output[0] # cv.output[1] /\ cv.output[1] # cv.output[3]
    /\ \A k \in 0..7 : cv.output[k] # STALE

====
